---- MODULE Spec2Model ----
(***************************************************************************)
(* whisper-web-scribe: the transcription orchestration of the browser app  *)
(* (App component: task controller, progress aggregation, diarization) and *)
(* of its Web Worker (message listener, PipelineSingleton engine cache).   *)
(*                                                                         *)
(* The main thread and every worker are single-threaded event loops: one   *)
(* action of the model is one run-to-completion step (an event handler, or *)
(* the part of an async function between two awaits).                      *)
(***************************************************************************)
EXTENDS Integers, Sequences, FiniteSets, TLC

VARIABLES
    \* ---- App component state (useState / useRef) ----
    file,              \* a file is selected (file !== null)
    isProcessing,
    progress,          \* ProgressMessage or NoProgress (null)
    transcription,     \* TranscriptionOutput or NoOutput (null)
    error,             \* message string, or NoError (null)
    model,             \* selected model (modelRef.current follows it)
    device,            \* selected device
    downloadStats,
    downloadedModels,
    downloads,         \* downloadsRef.current: file -> {loaded,total} or NoEntry
    globalProgress,    \* globalProgressRef.current
    workerRef,         \* workerRef.current: id of the referenced worker
    decoding,          \* startTranscription calls suspended at await decodeAudio
    now,               \* Date.now() in milliseconds
    \* ---- background workers ----
    alive,             \* workers created and not terminated
    inbox,             \* per worker: requests posted to it, not yet dispatched
    outbox,            \* per worker: messages it posted, not yet dispatched on main
    handlers,          \* per worker: listener invocations suspended at an await
    singleton,         \* per worker: PipelineSingleton {instance, model, device}
    \* ---- history (observation only, never read by the program) ----
    nextTask,          \* number of startTranscription calls that passed the file check
    outcome,           \* per task: terminal outcomes reached
    cancelRun,         \* number of cancelProcessing calls in a row (capped at 2)
    lateDelivered,     \* tasks whose request reached a worker after their cancel
    reqCount,          \* number of request messages posted to workers
    failMsg,           \* per task: the message of the failure its request raised
    descs,             \* per worker: descriptors requested by getInstance so far
    constructCount,    \* per worker: number of pipeline() calls
    eventCount,        \* number of asset-loading events the engines reported
    overlapped,        \* a start was made while earlier work was still under way
    sample,            \* what the last 'progress' message found: elapsed time, byte difference
    aggregated,        \* tasks of which an initiate, progress or done message was aggregated
    emitted,           \* task -> while the worker that read its request lives: that worker, the terminal messages it posted for the task, whether an event followed one
    \* ---- output ----
    download,          \* content and name of the last subtitle file handed to the browser
    \* ---- the REST server ----
    serverInstance,    \* ServerPipelineSingleton.instance: null, or the promise and its state
    requests,          \* per request: where its handler is and the responses it was sent
    serverConstructs   \* history: number of pipeline() calls of the server

appVars == <<file, isProcessing, progress, transcription, error, model, device,
             downloadStats, downloadedModels, downloads, globalProgress,
             workerRef, decoding, now>>
workerVars == <<alive, inbox, outbox, handlers, singleton>>
histVars == <<nextTask, outcome, cancelRun, lateDelivered, reqCount, failMsg,
              descs, constructCount, eventCount, overlapped, sample, aggregated,
              emitted>>
serverVars == <<serverInstance, requests, serverConstructs>>
vars == <<appVars, workerVars, histVars, download, serverVars>>

\* ------------------------------------------------------------------ bounds
MaxTasks == 2
MaxWorkers == 3
MaxEvents == 1
MaxSoloTasks == 1
MaxNow == 2000
MaxCacheTasks == 3
MaxAggTasks == 1
MaxAggEvents == 2
MaxCommuteEvents == 3
MaxResultTasks == 2
MaxRequests == 3

\* ------------------------------------------------------------- vocabulary
\* Task identities, enough for every specification below.
TaskCap == IF MaxCacheTasks > MaxTasks THEN MaxCacheTasks ELSE MaxTasks
Tasks == 1..TaskCap
WorkerIds == 1..MaxWorkers
DefaultModel == "Xenova/whisper-tiny"
Models == {DefaultModel, "Xenova/whisper-base"}
Wasm == "wasm"
Devices == {Wasm, "webgpu"}
SpecFiles == {"model.onnx"}
Files == SpecFiles \cup {"tokenizer.json"}

NoError == "null"
CancelMsg == "Processing cancelled by user."
DecodeFailMsg == "Failed to process media: decode error"
InvalidFileMsg == "Please upload a valid audio or video file (e.g., WAV, MP3, MP4, WebM)."
ConstructErr == "no available backend found"
InferErr == "inference failed"
NoFail == "none"

\* Rationals are pairs <<numerator, denominator>> in lowest terms.
RECURSIVE Gcd(_, _)
Gcd(a, b) == IF b = 0 THEN a ELSE Gcd(b, a % b)
Rat(n, d) == IF n = 0 THEN <<0, 1>> ELSE <<n \div Gcd(n, d), d \div Gcd(n, d)>>
Zero == <<0, 1>>
Max(a, b) == IF a >= b THEN a ELSE b

NoEngine == [model |-> "none", device |-> "none"]
NoEntry == [loaded |-> -1, total |-> -1]
NoProgress == [status |-> "null", file |-> "", progress |-> Zero]
NoOutput == [task |-> 0, chunks |-> <<>>]
\* The listener invocation of a task has posted nothing yet.
NoneEmitted == [by |-> 0, terminal |-> <<>>, late |-> FALSE]
Requests == 1..MaxRequests
\* A request that has not arrived. pc is where its handler stands; engine tells
\* whether the handler asked for the engine.
NoRequest == [pc |-> "none", hasFile |-> FALSE, engine |-> FALSE, responses |-> <<>>]
NoDownload == [name |-> "", content |-> <<>>]
NoSample == [elapsed |-> 0, diff |-> 0, resample |-> FALSE, before |-> Zero]
ZeroStats == [speed |-> Zero, loaded |-> Zero, total |-> Zero, timeRemaining |-> Zero]

\* A message from a worker; unused fields carry their empty value.
Msg(status, f, l, t, e, o, task) ==
    [status |-> status, file |-> f, loaded |-> l, total |-> t, error |-> e,
     output |-> o, task |-> task]
StatusMsg(status, task) == Msg(status, "", 0, 0, NoError, NoOutput, task)

\* What the engine reports while it loads its assets, as drawn in Spec:
\* one file, discovered, half loaded, finished.
SpecEvents ==
    { Msg("initiate", f, 0, 0, NoError, NoOutput, 0) : f \in SpecFiles } \cup
    { Msg("progress", f, 1, 2, NoError, NoOutput, 0) : f \in SpecFiles } \cup
    { Msg("done", f, 0, 0, NoError, NoOutput, 0) : f \in SpecFiles }

\* What the engine reports, as drawn in SpecAgg: for every file byte counts
\* below and above its total, and for one file its discovery and its end.
AggSizes == { <<1, 2>>, <<3, 2>> }
AggEvents ==
    { Msg("initiate", f, 0, 0, NoError, NoOutput, 0) : f \in SpecFiles } \cup
    { Msg("progress", f, sz[1], sz[2], NoError, NoOutput, 0) : f \in Files, sz \in AggSizes } \cup
    { Msg("done", f, 0, 0, NoError, NoOutput, 0) : f \in SpecFiles }
TickSteps == {500, 1000}

\* Chunks the engine returns, as drawn in Spec. Times are in milliseconds: the
\* number 1.5 of the program is 1500 here. A chunk is a record that has only
\* the fields the engine set; an end time the engine left open is Null.
Null == -1
SpecChunks ==
    { << [text |-> " a", timestamp |-> <<0, 1000>>],
         [text |-> " b", timestamp |-> <<3000, 4000>>] >> }

\* ------------------------------------------------------------------- Init
InitSingleton == [instance |-> NoEngine, model |-> DefaultModel, device |-> Wasm]

Init ==
    /\ file = FALSE
    /\ isProcessing = FALSE
    /\ progress = NoProgress
    /\ transcription = NoOutput
    /\ error = NoError
    /\ model = DefaultModel
    /\ device = Wasm
    /\ downloadStats = ZeroStats
    /\ downloadedModels = {}
    /\ downloads = [f \in Files |-> NoEntry]
    /\ now = 0
    /\ globalProgress = [time |-> 0, loaded |-> 0, speed |-> Zero, percentage |-> Zero]
    /\ workerRef = 1
    /\ decoding = {}
    /\ alive = {1}
    /\ inbox = [w \in WorkerIds |-> <<>>]
    /\ outbox = [w \in WorkerIds |-> <<>>]
    /\ handlers = [w \in WorkerIds |-> {}]
    /\ singleton = [w \in WorkerIds |-> InitSingleton]
    /\ nextTask = 0
    /\ outcome = [t \in Tasks |-> {}]
    /\ cancelRun = 0
    /\ lateDelivered = {}
    /\ reqCount = 0
    /\ failMsg = [t \in Tasks |-> NoFail]
    /\ descs = [w \in WorkerIds |-> {}]
    /\ constructCount = [w \in WorkerIds |-> 0]
    /\ eventCount = 0
    /\ overlapped = FALSE
    /\ sample = NoSample
    /\ aggregated = {}
    /\ emitted = [t \in Tasks |-> NoneEmitted]
    /\ download = NoDownload
    /\ serverInstance = "null"
    /\ requests = [r \in Requests |-> NoRequest]
    /\ serverConstructs = 0

\* Tasks that were started and have reached no terminal outcome.
ActiveTasks == { t \in 1..nextTask : outcome[t] = {} }

\* A task is active, a decode is pending, or a live worker holds a request, a
\* suspended listener or an undelivered message.
WorkUnderWay ==
    \/ ActiveTasks # {}
    \/ decoding # {}
    \/ \E w \in alive : inbox[w] # <<>> \/ handlers[w] # {} \/ outbox[w] # <<>>

\* Every action that is not cancelProcessing ends a run of cancels.
NotCancel == cancelRun' = 0

\* ------------------------------------------------------------ diarization
\* The pause after which the speaker toggles: 1.5 s, in milliseconds.
PauseThreshold == 1500

\* The number a value stands for in a subtraction: null counts as 0.
Num(x) == IF x = Null THEN 0 ELSE x

\* The pause test with >= in place of >.
RECURSIVE SpeakerAt_AtLeast(_, _)
SpeakerAt_AtLeast(chunks, i) ==
    IF i = 1 THEN 1
    ELSE LET before == SpeakerAt_AtLeast(chunks, i - 1)
             prevEnd == chunks[i - 1].timestamp[2]
             currentStart == chunks[i].timestamp[1]
         IN  IF Num(currentStart) - Num(prevEnd) >= PauseThreshold
             THEN (IF before = 1 THEN 2 ELSE 1)
             ELSE before

\* currentSpeaker after chunk i of the map() callback (i is 1-based here).
RECURSIVE SpeakerAt(_, _)
SpeakerAt(chunks, i) ==
    IF i = 1 THEN 1
    ELSE LET before == SpeakerAt(chunks, i - 1)
             prevEnd == chunks[i - 1].timestamp[2]
             currentStart == chunks[i].timestamp[1]
         IN  IF Num(currentStart) - Num(prevEnd) > PauseThreshold
             THEN (IF before = 1 THEN 2 ELSE 1)
             ELSE before

SpeakerLabel(n) == IF n = 1 THEN "Speaker 1" ELSE "Speaker 2"

\* { ...chunk, speaker }: the chunk's own fields and the label.
Labelled(chunk, label) ==
    [f \in DOMAIN chunk \cup {"speaker"} |-> IF f = "speaker" THEN label ELSE chunk[f]]

\* currentSpeaker kept from the result on display instead of starting at 1.
Diarize_CarryOver(chunks) ==
    LET old == transcription.chunks
        flip == old # <<>> /\ old[Len(old)].speaker = "Speaker 2"
    IN  [i \in 1..Len(chunks) |->
            Labelled(chunks[i],
                     SpeakerLabel(IF flip THEN 3 - SpeakerAt(chunks, i)
                                  ELSE SpeakerAt(chunks, i)))]

Diarize(chunks) ==
    [i \in 1..Len(chunks) |-> Labelled(chunks[i], SpeakerLabel(SpeakerAt(chunks, i)))]

\* Reading timestamp[..] of a chunk that has no timestamp throws; the callback
\* reads it of chunk i and of chunk i-1 for every i after the first.
DiarizeThrows(chunks) ==
    \E i \in 2..Len(chunks) :
        "timestamp" \notin DOMAIN chunks[i - 1] \/ "timestamp" \notin DOMAIN chunks[i]

\* ------------------------------------------- worker messages on the main thread
Tracked == { f \in Files : downloads[f] # NoEntry }
\* The loop with '=' for '+=': the value of one file instead of the sum.
SumOver_One(d, fs, field) ==
    IF fs = {} THEN 0
    ELSE LET f == CHOOSE x \in fs : TRUE
         IN  IF field = "loaded" THEN d[f].loaded ELSE d[f].total

RECURSIVE SumOver(_, _, _)
SumOver(d, fs, field) ==
    IF fs = {} THEN 0
    ELSE LET f == CHOOSE x \in fs : TRUE
         IN  (IF field = "loaded" THEN d[f].loaded ELSE d[f].total)
             + SumOver(d, fs \ {f}, field)

BytesPerMB == 1048576
SpeedWindowMs == 500

\* percentage = globalTotal > 0 ? min(100, loaded / total * 100) : 0
Percentage(globalLoaded, globalTotal) ==
    IF globalTotal > 0
    THEN (IF globalLoaded >= globalTotal THEN <<100, 1>>
          ELSE Rat(globalLoaded * 100, globalTotal))
    ELSE Zero

\* timeDiff > 0.5, with the times in milliseconds.
Resample(timeDiffMs) == timeDiffMs > SpeedWindowMs

\* The division without Math.max(0, ...).
SampleSpeed_NoMax(loadedDiff, timeDiffMs) ==
    IF loadedDiff = 0 THEN Zero
    ELSE IF loadedDiff > 0 THEN Rat(loadedDiff * 1000, timeDiffMs)
    ELSE <<-Rat((-loadedDiff) * 1000, timeDiffMs)[1], Rat((-loadedDiff) * 1000, timeDiffMs)[2]>>

\* speed = Math.max(0, loadedDiff / timeDiff), in bytes per second.
SampleSpeed(loadedDiff, timeDiffMs) ==
    IF loadedDiff > 0 THEN Rat(loadedDiff * 1000, timeDiffMs) ELSE Zero

\* The difference without Math.max(0, ...).
RemainingBytes_NoMax(globalTotal, globalLoaded) == globalTotal - globalLoaded

\* remainingBytes = Math.max(0, globalTotal - globalLoaded)
RemainingBytes(globalTotal, globalLoaded) == Max(0, globalTotal - globalLoaded)

\* timeRemaining = speed > 0 ? remainingBytes / speed : 0
TimeRemaining(remainingBytes, speed) ==
    IF speed[1] > 0
    THEN (IF remainingBytes >= 0
          THEN Rat(remainingBytes * speed[2], speed[1])
          ELSE <<-Rat((-remainingBytes) * speed[2], speed[1])[1],
                 Rat((-remainingBytes) * speed[2], speed[1])[2]>>)
    ELSE Zero

\* status 'init': the aggregator is reset.
HandleInit(m) ==
    /\ UNCHANGED <<sample, aggregated, download, emitted>>
    /\ downloads' = [f \in Files |-> NoEntry]
    /\ globalProgress' = [time |-> now, loaded |-> 0, speed |-> Zero, percentage |-> Zero]
    /\ downloadStats' = ZeroStats
    /\ progress' = [status |-> "init", file |-> "", progress |-> Zero]
    /\ UNCHANGED <<isProcessing, transcription, error, downloadedModels, outcome>>

\* status 'initiate': a zero entry for the file.
HandleInitiate(m) ==
    /\ UNCHANGED <<sample, download, emitted>>
    /\ aggregated' = aggregated \cup {m.task}
    /\ downloads' = [downloads EXCEPT ![m.file] = [loaded |-> 0, total |-> 0]]
    /\ progress' = [status |-> "progress", file |-> m.file,
                    progress |-> globalProgress.percentage]
    /\ UNCHANGED <<isProcessing, transcription, error, downloadedModels, outcome,
                   globalProgress, downloadStats>>

\* status 'progress': the entry is replaced and the snapshot recomputed.
HandleProgress(m) ==
    LET d2 == [downloads EXCEPT ![m.file] = [loaded |-> m.loaded, total |-> m.total]]
        tracked == { f \in Files : d2[f] # NoEntry }
        globalLoaded == SumOver(d2, tracked, "loaded")
        globalTotal == SumOver(d2, tracked, "total")
        timeDiffMs == now - globalProgress.time
        resample == Resample(timeDiffMs)
        loadedDiff == globalLoaded - globalProgress.loaded
        speed == IF resample
                 THEN SampleSpeed(loadedDiff, timeDiffMs)
                 ELSE globalProgress.speed
        remainingBytes == RemainingBytes(globalTotal, globalLoaded)
        timeRemaining == TimeRemaining(remainingBytes, speed)
        percentage == Percentage(globalLoaded, globalTotal)
    IN  /\ downloads' = d2
        /\ aggregated' = aggregated \cup {m.task}
        /\ UNCHANGED <<download, emitted>>
        /\ sample' = [elapsed |-> timeDiffMs, diff |-> loadedDiff, resample |-> resample,
                      before |-> globalProgress.speed]
        /\ globalProgress' =
              [time |-> IF resample THEN now ELSE globalProgress.time,
               loaded |-> IF resample THEN globalLoaded ELSE globalProgress.loaded,
               speed |-> speed,
               percentage |-> percentage]
        /\ downloadStats' =
              [speed |-> Rat(speed[1], speed[2] * BytesPerMB),
               loaded |-> Rat(globalLoaded, BytesPerMB),
               total |-> Rat(globalTotal, BytesPerMB),
               timeRemaining |-> timeRemaining]
        /\ progress' = [status |-> "progress", file |-> m.file, progress |-> percentage]
        /\ UNCHANGED <<isProcessing, transcription, error, downloadedModels, outcome>>

\* The 'done' branch without the check that the file is tracked: an untracked
\* file gets an entry.
HandleDone_NoCheck(m) ==
    /\ UNCHANGED <<sample, download, emitted>>
    /\ aggregated' = aggregated \cup {m.task}
    /\ downloads' = IF downloads[m.file] # NoEntry
                    THEN [downloads EXCEPT ![m.file].loaded = downloads[m.file].total]
                    ELSE [downloads EXCEPT ![m.file] = [loaded |-> 0, total |-> 0]]
    /\ progress' = [status |-> "progress", file |-> m.file,
                    progress |-> globalProgress.percentage]
    /\ UNCHANGED <<isProcessing, transcription, error, downloadedModels, outcome,
                   globalProgress, downloadStats>>

\* status 'done': a tracked file's loaded is forced to its total.
HandleDone(m) ==
    /\ UNCHANGED <<sample, download, emitted>>
    /\ aggregated' = aggregated \cup {m.task}
    /\ downloads' = IF downloads[m.file] # NoEntry
                    THEN [downloads EXCEPT ![m.file].loaded = downloads[m.file].total]
                    ELSE downloads
    /\ progress' = [status |-> "progress", file |-> m.file,
                    progress |-> globalProgress.percentage]
    /\ UNCHANGED <<isProcessing, transcription, error, downloadedModels, outcome,
                   globalProgress, downloadStats>>

\* What the initiate, progress and done branches do to the mapping and to the
\* published loaded and total, as a function of the message.
Aggregate(a, m) ==
    CASE m.status = "initiate" ->
           [a EXCEPT !.downloads[m.file] = [loaded |-> 0, total |-> 0]]
      [] m.status = "progress" ->
           LET d2 == [a.downloads EXCEPT ![m.file] = [loaded |-> m.loaded, total |-> m.total]]
               tracked == { f \in Files : d2[f] # NoEntry }
           IN  [downloads |-> d2,
                loaded |-> Rat(SumOver(d2, tracked, "loaded"), BytesPerMB),
                total |-> Rat(SumOver(d2, tracked, "total"), BytesPerMB)]
      [] m.status = "done" ->
           IF a.downloads[m.file] # NoEntry
           THEN [a EXCEPT !.downloads[m.file].loaded = a.downloads[m.file].total]
           ELSE a
      [] OTHER -> a

\* The messages of a sequence handled one after the other.
RECURSIVE AggregateAll(_, _)
AggregateAll(a, msgs) ==
    IF msgs = <<>> THEN a ELSE AggregateAll(Aggregate(a, Head(msgs)), Tail(msgs))

\* 'ready' taken for the end of the task.
HandleReady_EndsTask(m) ==
    /\ UNCHANGED <<sample, aggregated, download, emitted>>
    /\ isProcessing' = FALSE
    /\ progress' = [status |-> "ready", file |-> "", progress |-> Zero]
    /\ downloadedModels' = downloadedModels \cup {model}
    /\ UNCHANGED <<transcription, error, outcome, downloads,
                   globalProgress, downloadStats>>

\* status 'ready': the model is remembered as downloaded.
HandleReady(m) ==
    /\ UNCHANGED <<sample, aggregated, download, emitted>>
    /\ progress' = [status |-> "ready", file |-> "", progress |-> Zero]
    /\ downloadedModels' = downloadedModels \cup {model}
    /\ UNCHANGED <<isProcessing, transcription, error, outcome, downloads,
                   globalProgress, downloadStats>>

\* status 'complete': the chunks are diarized and the result published. When
\* the diarization throws, the handler ends there and no state is set.
HandleComplete(m) ==
    /\ UNCHANGED <<sample, aggregated, download, emitted>>
    /\ IF DiarizeThrows(m.output.chunks)
       THEN UNCHANGED <<transcription, isProcessing, progress, outcome>>
       ELSE /\ transcription' = [task |-> m.output.task,
                                 chunks |-> Diarize(m.output.chunks)]
            /\ isProcessing' = FALSE
            /\ progress' = NoProgress
            /\ outcome' = [outcome EXCEPT ![m.task] = @ \cup {"complete"}]
    /\ UNCHANGED <<error, downloadedModels, downloads, globalProgress, downloadStats>>

\* The error branch without setIsProcessing(false).
HandleError_StaysProcessing(m) ==
    /\ UNCHANGED <<sample, aggregated, download, emitted>>
    /\ error' = m.error
    /\ progress' = NoProgress
    /\ outcome' = [outcome EXCEPT ![m.task] = @ \cup {"error"}]
    /\ UNCHANGED <<isProcessing, transcription, downloadedModels, downloads,
                   globalProgress, downloadStats>>

\* status 'error': the failure message is published.
HandleError(m) ==
    /\ UNCHANGED <<sample, aggregated, download, emitted>>
    /\ error' = m.error
    /\ isProcessing' = FALSE
    /\ progress' = NoProgress
    /\ outcome' = [outcome EXCEPT ![m.task] = @ \cup {"error"}]
    /\ UNCHANGED <<transcription, downloadedModels, downloads, globalProgress,
                   downloadStats>>

\* The message listener createWorker attaches to a worker: the oldest message the
\* worker posted is dispatched.
WorkerMessage(w) ==
    /\ w \in alive
    /\ outbox[w] # <<>>
    /\ LET m == Head(outbox[w])
       IN  CASE m.status = "init" -> HandleInit(m)
             [] m.status = "initiate" -> HandleInitiate(m)
             [] m.status = "progress" -> HandleProgress(m)
             [] m.status = "done" -> HandleDone(m)
             [] m.status = "ready" -> HandleReady(m)
             [] m.status = "complete" -> HandleComplete(m)
             [] m.status = "error" -> HandleError(m)
    /\ outbox' = [outbox EXCEPT ![w] = Tail(@)]
    /\ NotCancel
    /\ UNCHANGED serverVars
    /\ UNCHANGED <<file, model, device, workerRef, decoding, now>>
    /\ UNCHANGED <<alive, inbox, handlers, singleton>>
    /\ UNCHANGED <<nextTask, lateDelivered, reqCount, failMsg, descs, constructCount, eventCount, overlapped>>

\* ------------------------------------------------------- worker lifecycle
FreshWorker == workerRef + 1

\* workerRef.current.terminate(): the worker stops at once; what it was doing,
\* the requests it had not read and the messages it had posted are dropped,
\* and the records kept of it end with it.
Terminate(w) ==
    /\ inbox' = [inbox EXCEPT ![w] = <<>>]
    /\ outbox' = [outbox EXCEPT ![w] = <<>>]
    /\ handlers' = [handlers EXCEPT ![w] = {}]
    /\ singleton' = [singleton EXCEPT ![w] = InitSingleton]
    /\ descs' = [descs EXCEPT ![w] = {}]
    /\ constructCount' = [constructCount EXCEPT ![w] = 0]
    /\ emitted' = [t \in Tasks |->
                      IF emitted[t].by = w
                      THEN NoneEmitted
                      ELSE emitted[t]]

\* cancelProcessing without the terminate() call: the old worker lives on.
CancelProcessing_NoTerminate ==
    /\ FreshWorker \in WorkerIds
    /\ alive' = alive \cup {FreshWorker}
    /\ workerRef' = FreshWorker
    /\ isProcessing' = FALSE
    /\ progress' = NoProgress
    /\ error' = CancelMsg
    /\ outcome' = [t \in Tasks |-> IF t \in ActiveTasks THEN {"cancelled"} ELSE outcome[t]]
    /\ cancelRun' = IF cancelRun < 2 THEN cancelRun + 1 ELSE 2
    /\ UNCHANGED serverVars
    /\ UNCHANGED <<file, transcription, model, device, downloadStats, downloadedModels,
                   downloads, globalProgress, decoding, now>>
    /\ UNCHANGED <<inbox, outbox, handlers, singleton>>
    /\ UNCHANGED <<nextTask, lateDelivered, reqCount, failMsg, descs, constructCount,
                   eventCount, overlapped, sample, aggregated, download, emitted>>

\* cancelProcessing: terminate the referenced worker, create a new one, clear the
\* indicators and record the cancellation in the error state.
CancelProcessing ==
    /\ FreshWorker \in WorkerIds
    /\ Terminate(workerRef)
    /\ alive' = (alive \ {workerRef}) \cup {FreshWorker}
    /\ workerRef' = FreshWorker
    /\ isProcessing' = FALSE
    /\ progress' = NoProgress
    /\ error' = CancelMsg
    /\ outcome' = [t \in Tasks |-> IF t \in ActiveTasks THEN {"cancelled"} ELSE outcome[t]]
    /\ cancelRun' = IF cancelRun < 2 THEN cancelRun + 1 ELSE 2
    /\ UNCHANGED serverVars
    /\ UNCHANGED <<file, transcription, model, device, downloadStats, downloadedModels,
                   downloads, globalProgress, decoding, now>>
    /\ UNCHANGED <<nextTask, lateDelivered, reqCount, failMsg, eventCount, overlapped, sample, aggregated, download>>

\* ------------------------------------------------------ startTranscription
\* startTranscription without the check that a file is selected.
Start_NoFileCheck(limit) ==
    /\ nextTask < limit
    /\ error' = NoError
    /\ isProcessing' = TRUE
    /\ progress' = [status |-> "init", file |-> "", progress |-> Zero]
    /\ decoding' = decoding \cup {[task |-> nextTask + 1, model |-> model, device |-> device]}
    /\ nextTask' = nextTask + 1
    /\ overlapped' = (overlapped \/ WorkUnderWay)
    /\ NotCancel
    /\ UNCHANGED serverVars
    /\ UNCHANGED <<sample, aggregated, download, emitted>>
    /\ UNCHANGED <<file, transcription, model, device, downloadStats, downloadedModels,
                   downloads, globalProgress, workerRef, now>>
    /\ UNCHANGED workerVars
    /\ UNCHANGED <<outcome, lateDelivered, reqCount, failMsg, descs, constructCount,
                   eventCount>>

\* Up to the await of decodeAudio. Without a file the call returns at once.
Start(limit) ==
    /\ file
    /\ nextTask < limit
    /\ error' = NoError
    /\ isProcessing' = TRUE
    /\ progress' = [status |-> "init", file |-> "", progress |-> Zero]
    /\ decoding' = decoding \cup {[task |-> nextTask + 1, model |-> model, device |-> device]}
    /\ nextTask' = nextTask + 1
    /\ overlapped' = (overlapped \/ WorkUnderWay)
    /\ NotCancel
    /\ UNCHANGED serverVars
    /\ UNCHANGED <<sample, aggregated, download, emitted>>
    /\ UNCHANGED <<file, transcription, model, device, downloadStats, downloadedModels,
                   downloads, globalProgress, workerRef, now>>
    /\ UNCHANGED workerVars
    /\ UNCHANGED <<outcome, lateDelivered, reqCount, failMsg, descs, constructCount,
                   eventCount>>

StartTranscription == Start(MaxTasks)

\* decodeAudio resolved: the request is posted to the worker referenced now.
DecodeOk(d) ==
    /\ d \in decoding
    /\ decoding' = decoding \ {d}
    /\ inbox' = [inbox EXCEPT ![workerRef] = Append(@, d)]
    /\ reqCount' = reqCount + 1
    /\ NotCancel
    /\ UNCHANGED serverVars
    /\ UNCHANGED <<sample, aggregated, download, emitted>>
    /\ UNCHANGED <<file, isProcessing, progress, transcription, error, model, device,
                   downloadStats, downloadedModels, downloads, globalProgress,
                   workerRef, now>>
    /\ UNCHANGED <<alive, outbox, handlers, singleton>>
    /\ UNCHANGED <<nextTask, outcome, lateDelivered, failMsg, descs, constructCount, eventCount, overlapped>>

\* The catch block of startTranscription without setIsProcessing(false).
DecodeFail_StaysProcessing(d) ==
    /\ d \in decoding
    /\ decoding' = decoding \ {d}
    /\ error' = DecodeFailMsg
    /\ outcome' = [outcome EXCEPT ![d.task] = @ \cup {"error"}]
    /\ NotCancel
    /\ UNCHANGED serverVars
    /\ UNCHANGED <<sample, aggregated, download, emitted>>
    /\ UNCHANGED <<file, isProcessing, progress, transcription, model, device, downloadStats,
                   downloadedModels, downloads, globalProgress, workerRef, now>>
    /\ UNCHANGED workerVars
    /\ UNCHANGED <<nextTask, lateDelivered, reqCount, failMsg, descs, constructCount, eventCount, overlapped>>

\* decodeAudio rejected: the catch block of startTranscription.
DecodeFail(d) ==
    /\ d \in decoding
    /\ decoding' = decoding \ {d}
    /\ error' = DecodeFailMsg
    /\ isProcessing' = FALSE
    /\ outcome' = [outcome EXCEPT ![d.task] = @ \cup {"error"}]
    /\ NotCancel
    /\ UNCHANGED serverVars
    /\ UNCHANGED <<sample, aggregated, download, emitted>>
    /\ UNCHANGED <<file, progress, transcription, model, device, downloadStats,
                   downloadedModels, downloads, globalProgress, workerRef, now>>
    /\ UNCHANGED workerVars
    /\ UNCHANGED <<nextTask, lateDelivered, reqCount, failMsg, descs, constructCount, eventCount, overlapped>>

\* ---------------------------------------------------- the other controls
\* handleFileSelection: a file of another type is refused, a media file selected.
HandleFileSelection(isMedia) ==
    /\ IF isMedia
       THEN /\ file' = TRUE
            /\ transcription' = NoOutput
            /\ error' = NoError
       ELSE /\ error' = InvalidFileMsg
            /\ UNCHANGED <<file, transcription>>
    /\ NotCancel
    /\ UNCHANGED serverVars
    /\ UNCHANGED <<sample, aggregated, download, emitted>>
    /\ UNCHANGED <<isProcessing, progress, model, device, downloadStats, downloadedModels,
                   downloads, globalProgress, workerRef, decoding, now>>
    /\ UNCHANGED workerVars
    /\ UNCHANGED <<nextTask, outcome, lateDelivered, reqCount, failMsg, descs,
                   constructCount, eventCount, overlapped>>

\* resetApp, behind the buttons of the start, error and result panels.
resetApp ==
    /\ \/ file /\ ~isProcessing /\ transcription = NoOutput
       \/ error # NoError
       \/ file /\ transcription # NoOutput
    /\ file' = FALSE
    /\ transcription' = NoOutput
    /\ error' = NoError
    /\ progress' = NoProgress
    /\ isProcessing' = FALSE
    /\ NotCancel
    /\ UNCHANGED serverVars
    /\ UNCHANGED <<sample, aggregated, download, emitted>>
    /\ UNCHANGED <<model, device, downloadStats, downloadedModels, downloads,
                   globalProgress, workerRef, decoding, now>>
    /\ UNCHANGED workerVars
    /\ UNCHANGED <<nextTask, outcome, lateDelivered, reqCount, failMsg, descs,
                   constructCount, eventCount, overlapped>>

\* The model and device selects of the upload form, which is rendered only
\* while no file is selected and nothing is processed.
setModel(m) ==
    /\ ~file /\ ~isProcessing
    /\ m # model
    /\ model' = m
    /\ NotCancel
    /\ UNCHANGED serverVars
    /\ UNCHANGED <<sample, aggregated, download, emitted>>
    /\ UNCHANGED <<file, isProcessing, progress, transcription, error, device,
                   downloadStats, downloadedModels, downloads, globalProgress,
                   workerRef, decoding, now>>
    /\ UNCHANGED workerVars
    /\ UNCHANGED <<nextTask, outcome, lateDelivered, reqCount, failMsg, descs,
                   constructCount, eventCount, overlapped>>

setDevice(dv) ==
    /\ ~file /\ ~isProcessing
    /\ dv # device
    /\ device' = dv
    /\ NotCancel
    /\ UNCHANGED serverVars
    /\ UNCHANGED <<sample, aggregated, download, emitted>>
    /\ UNCHANGED <<file, isProcessing, progress, transcription, error, model,
                   downloadStats, downloadedModels, downloads, globalProgress,
                   workerRef, decoding, now>>
    /\ UNCHANGED workerVars
    /\ UNCHANGED <<nextTask, outcome, lateDelivered, reqCount, failMsg, descs,
                   constructCount, eventCount, overlapped>>

\* ------------------------------------------------------ subtitle export
\* String(n).padStart(width, '0').
RECURSIVE PadStart(_, _)
PadStart(str, width) ==
    IF Len(str) >= width THEN str ELSE PadStart("0" \o str, width)

\* formatTimestamp; t is seconds * 1000, the time value of the Date. The
\* getUTC* readers give the hour of the day, the minute of the hour, the second
\* of the minute and the millisecond of the second.
formatTimestamp(t, isSRT) ==
    LET hh == PadStart(ToString((t \div 3600000) % 24), 2)
        mm == PadStart(ToString((t \div 60000) % 60), 2)
        ss == PadStart(ToString((t \div 1000) % 60), 2)
        ms == PadStart(ToString(t % 1000), 3)
    IN  hh \o ":" \o mm \o ":" \o ss \o (IF isSRT THEN "," ELSE ".") \o ms

WhiteSpace == {" ", "\t", "\n"}

\* String.prototype.trim().
RECURSIVE Trim(_)
Trim(str) ==
    IF str = "" THEN str
    ELSE IF Head(str) \in WhiteSpace THEN Trim(Tail(str))
    ELSE IF SubSeq(str, Len(str), Len(str)) \in WhiteSpace
         THEN Trim(SubSeq(str, 1, Len(str) - 1))
    ELSE str

\* chunk.timestamp?.[0] ?? 0
ChunkStart(chunk) ==
    IF "timestamp" \in DOMAIN chunk /\ chunk.timestamp[1] # Null
    THEN chunk.timestamp[1] ELSE 0

\* The end taken as the start when the chunk has none.
ChunkEnd_SameAsStart(chunk) ==
    IF "timestamp" \in DOMAIN chunk /\ chunk.timestamp[2] # Null
    THEN chunk.timestamp[2] ELSE ChunkStart(chunk)

\* chunk.timestamp?.[1] ?? start + 1
ChunkEnd(chunk) ==
    IF "timestamp" \in DOMAIN chunk /\ chunk.timestamp[2] # Null
    THEN chunk.timestamp[2] ELSE ChunkStart(chunk) + 1000

\* chunk.text ?? chunk.word ?? ''
ChunkText(chunk) ==
    IF "text" \in DOMAIN chunk THEN chunk.text
    ELSE IF "word" \in DOMAIN chunk THEN chunk.word
    ELSE ""

\* The header written for both formats.
Header_Always(format) == "WEBVTT\n\n"

Header(format) == IF format = "vtt" THEN "WEBVTT\n\n" ELSE ""

\* The block with the index of the callback as its number (0-based).
SubtitleBlock_ZeroBased(chunk, i, format) ==
    (IF format = "srt" THEN ToString(i - 1) \o "\n" ELSE "") \o
    formatTimestamp(ChunkStart(chunk), format = "srt") \o " --> " \o
    formatTimestamp(ChunkEnd(chunk), format = "srt") \o "\n" \o
    Trim(ChunkText(chunk)) \o "\n\n"

\* What one call of the forEach callback appends; i is 1-based here, so the
\* program's i + 1 is i.
SubtitleBlock(chunk, i, format) ==
    (IF format = "srt" THEN ToString(i) \o "\n" ELSE "") \o
    formatTimestamp(ChunkStart(chunk), format = "srt") \o " --> " \o
    formatTimestamp(ChunkEnd(chunk), format = "srt") \o "\n" \o
    Trim(ChunkText(chunk)) \o "\n\n"

\* content after the callback has run for chunks 1..n.
RECURSIVE Content(_, _, _)
Content(chunks, n, format) ==
    IF n = 0 THEN Header(format)
    ELSE Content(chunks, n - 1, format) \o SubtitleBlock(chunks[n], n, format)

\* exportSubs, behind the two export buttons of the result panel: without a
\* result it returns, otherwise it hands the content to the browser as
\* transcript.<format>.
exportSubs(format) ==
    /\ file /\ transcription # NoOutput
    /\ download' = [name |-> "transcript." \o format,
                    content |-> Content(transcription.chunks,
                                        Len(transcription.chunks), format)]
    /\ NotCancel
    /\ UNCHANGED serverVars
    /\ UNCHANGED appVars
    /\ UNCHANGED workerVars
    /\ UNCHANGED <<nextTask, outcome, lateDelivered, reqCount, failMsg, descs,
                   constructCount, eventCount, overlapped, sample, aggregated, emitted>>

\* Date.now() moves on between two events.
Tick(d) ==
    /\ now + d <= MaxNow
    /\ now' = now + d
    /\ UNCHANGED <<file, isProcessing, progress, transcription, error, model, device,
                   downloadStats, downloadedModels, downloads, globalProgress,
                   workerRef, decoding>>
    /\ UNCHANGED workerVars
    /\ UNCHANGED histVars
    /\ UNCHANGED download
    /\ UNCHANGED serverVars

\* ------------------------------------------------------------- the worker
\* A listener invocation suspended at an await: of pipeline() for the requested
\* device ("construct"), of pipeline() for wasm ("fallback"), or of the
\* transcriber ("infer"). build is the engine the pending pipeline() call was
\* asked for, transcriber the engine getInstance returned.
Handler(req, pc, build, transcriber) ==
    [task |-> req.task, model |-> req.model, device |-> req.device, pc |-> pc,
     build |-> build, transcriber |-> transcriber]

\* What the listener invocation of task t posts.
EmitEvent(t) == emitted' = [emitted EXCEPT ![t].late = @ \/ emitted[t].terminal # <<>>]
EmitTerminal(t, status) == emitted' = [emitted EXCEPT ![t].terminal = Append(@, status)]

Post(w, m) == outbox' = [outbox EXCEPT ![w] = Append(@, m)]

\* The test without `this.instance === null`.
MustConstruct_DescriptorOnly(s, m, dv) ==
    s.model # m \/ s.device # dv

\* PipelineSingleton.getInstance, the test that decides whether to construct.
MustConstruct(s, m, dv) ==
    s.instance = NoEngine \/ s.model # m \/ s.device # dv

\* The message listener up to its first suspension: getInstance either starts
\* pipeline() for the requested descriptor or returns the cached instance, and
\* then the transcriber is called.
WorkerReceive(w) ==
    /\ w \in alive
    /\ inbox[w] # <<>>
    /\ LET req == Head(inbox[w])
           s == singleton[w]
       IN  /\ inbox' = [inbox EXCEPT ![w] = Tail(@)]
           /\ descs' = [descs EXCEPT ![w] = @ \cup {<<req.model, req.device>>}]
           /\ lateDelivered' = IF "cancelled" \in outcome[req.task]
                               THEN lateDelivered \cup {req.task}
                               ELSE lateDelivered
           /\ IF MustConstruct(s, req.model, req.device)
              THEN /\ singleton' = [singleton EXCEPT ![w].model = req.model,
                                                     ![w].device = req.device]
                   /\ constructCount' = [constructCount EXCEPT ![w] = @ + 1]
                   /\ handlers' = [handlers EXCEPT ![w] = @ \cup
                         {Handler(req, "construct",
                                  [model |-> req.model, device |-> req.device],
                                  NoEngine)}]
              ELSE /\ handlers' = [handlers EXCEPT ![w] = @ \cup
                         {Handler(req, "infer", NoEngine, s.instance)}]
                   /\ UNCHANGED <<singleton, constructCount>>
    /\ NotCancel
    /\ UNCHANGED serverVars
    /\ emitted' = [emitted EXCEPT ![Head(inbox[w]).task].by = w]
    /\ UNCHANGED <<sample, aggregated, download>>
    /\ UNCHANGED appVars
    /\ UNCHANGED <<alive, outbox>>
    /\ UNCHANGED <<nextTask, outcome, reqCount, failMsg, eventCount, overlapped>>

\* pipeline() reports asset loading through progress_callback, which posts the
\* event as it is.
Emit(w, h, ev) ==
    /\ w \in alive
    /\ h \in handlers[w]
    /\ h.pc \in {"construct", "fallback"}
    /\ Post(w, [ev EXCEPT !.task = h.task])
    /\ eventCount' = eventCount + 1
    /\ NotCancel
    /\ UNCHANGED serverVars
    /\ UNCHANGED <<sample, aggregated, download>>
    /\ EmitEvent(h.task)
    /\ UNCHANGED appVars
    /\ UNCHANGED <<alive, inbox, handlers, singleton>>
    /\ UNCHANGED <<nextTask, outcome, lateDelivered, reqCount, failMsg, descs,
                   constructCount, overlapped>>

EngineEvent(w, h, ev) == eventCount < MaxEvents /\ Emit(w, h, ev)

AggEvent(w, h, ev) == eventCount < MaxAggEvents /\ Emit(w, h, ev)

\* pipeline() resolved: 'ready' is reported, the engine becomes the instance,
\* getInstance returns it and the transcriber is called with the audio.
ConstructOk(w, h) ==
    /\ w \in alive
    /\ h \in handlers[w]
    /\ h.pc \in {"construct", "fallback"}
    /\ Post(w, StatusMsg("ready", h.task))
    /\ singleton' = [singleton EXCEPT ![w].instance = h.build]
    /\ handlers' = [handlers EXCEPT ![w] = (@ \ {h}) \cup
          {[h EXCEPT !.pc = "infer", !.transcriber = h.build, !.build = NoEngine]}]
    /\ NotCancel
    /\ UNCHANGED serverVars
    /\ UNCHANGED <<sample, aggregated, download>>
    /\ EmitEvent(h.task)
    /\ UNCHANGED appVars
    /\ UNCHANGED <<alive, inbox>>
    /\ UNCHANGED <<nextTask, outcome, lateDelivered, reqCount, failMsg, descs,
                   constructCount, eventCount, overlapped>>

\* The catch block without the forced device: the retry asks for the same device.
ConstructFail_SameDevice(w, h) ==
    /\ w \in alive
    /\ h \in handlers[w]
    /\ h.pc = "construct"
    /\ constructCount' = [constructCount EXCEPT ![w] = @ + 1]
    /\ handlers' = [handlers EXCEPT ![w] = (@ \ {h}) \cup
          {[h EXCEPT !.pc = "fallback",
                     !.build = [model |-> singleton[w].model, device |-> singleton[w].device]]}]
    /\ NotCancel
    /\ UNCHANGED serverVars
    /\ UNCHANGED <<sample, aggregated, download, emitted>>
    /\ UNCHANGED appVars
    /\ UNCHANGED <<alive, inbox, outbox, singleton>>
    /\ UNCHANGED <<nextTask, outcome, lateDelivered, reqCount, failMsg, descs, eventCount, overlapped>>

\* pipeline() for the requested device rejected: the catch block sets the device
\* to wasm and calls pipeline() again for the model the singleton holds now.
ConstructFail(w, h) ==
    /\ w \in alive
    /\ h \in handlers[w]
    /\ h.pc = "construct"
    /\ singleton' = [singleton EXCEPT ![w].device = Wasm]
    /\ constructCount' = [constructCount EXCEPT ![w] = @ + 1]
    /\ handlers' = [handlers EXCEPT ![w] = (@ \ {h}) \cup
          {[h EXCEPT !.pc = "fallback",
                     !.build = [model |-> singleton[w].model, device |-> Wasm]]}]
    /\ NotCancel
    /\ UNCHANGED serverVars
    /\ UNCHANGED <<sample, aggregated, download, emitted>>
    /\ UNCHANGED appVars
    /\ UNCHANGED <<alive, inbox, outbox>>
    /\ UNCHANGED <<nextTask, outcome, lateDelivered, reqCount, failMsg, descs, eventCount, overlapped>>

\* The catch block of the listener: the failure's message is posted.
Fails(w, h, msg) ==
    /\ Post(w, Msg("error", "", 0, 0, msg, NoOutput, h.task))
    /\ handlers' = [handlers EXCEPT ![w] = @ \ {h}]
    /\ failMsg' = [failMsg EXCEPT ![h.task] = msg]
    /\ EmitTerminal(h.task, "error")

\* A failed fallback that tries once more instead of throwing.
FallbackFail_Retry(w, h) ==
    /\ w \in alive
    /\ h \in handlers[w]
    /\ h.pc = "fallback"
    /\ constructCount' = [constructCount EXCEPT ![w] = @ + 1]
    /\ NotCancel
    /\ UNCHANGED serverVars
    /\ UNCHANGED <<sample, aggregated, download, emitted>>
    /\ UNCHANGED appVars
    /\ UNCHANGED workerVars
    /\ UNCHANGED <<nextTask, outcome, lateDelivered, reqCount, failMsg, descs, eventCount, overlapped>>

\* pipeline() for wasm rejected too: getInstance throws.
FallbackFail(w, h) ==
    /\ w \in alive
    /\ h \in handlers[w]
    /\ h.pc = "fallback"
    /\ Fails(w, h, ConstructErr)
    /\ NotCancel
    /\ UNCHANGED serverVars
    /\ UNCHANGED <<sample, aggregated, download>>
    /\ UNCHANGED appVars
    /\ UNCHANGED <<alive, inbox, singleton>>
    /\ UNCHANGED <<nextTask, outcome, lateDelivered, reqCount, descs, constructCount, eventCount, overlapped>>

\* 'complete' posted from a listener that goes on running.
InferOk_GoesOn(w, h, chunks) ==
    /\ w \in alive
    /\ h \in handlers[w]
    /\ h.pc = "infer"
    /\ Post(w, Msg("complete", "", 0, 0, NoError,
                   [task |-> h.task, chunks |-> chunks], h.task))
    /\ UNCHANGED handlers
    /\ NotCancel
    /\ UNCHANGED serverVars
    /\ UNCHANGED <<sample, aggregated, download>>
    /\ EmitTerminal(h.task, "complete")
    /\ UNCHANGED appVars
    /\ UNCHANGED <<alive, inbox, singleton>>
    /\ UNCHANGED <<nextTask, outcome, lateDelivered, reqCount, failMsg, descs,
                   constructCount, eventCount, overlapped>>

\* The transcriber resolved: 'complete' is posted with its output.
InferOk(w, h, chunks) ==
    /\ w \in alive
    /\ h \in handlers[w]
    /\ h.pc = "infer"
    /\ Post(w, Msg("complete", "", 0, 0, NoError,
                   [task |-> h.task, chunks |-> chunks], h.task))
    /\ handlers' = [handlers EXCEPT ![w] = @ \ {h}]
    /\ NotCancel
    /\ UNCHANGED serverVars
    /\ UNCHANGED <<sample, aggregated, download>>
    /\ EmitTerminal(h.task, "complete")
    /\ UNCHANGED appVars
    /\ UNCHANGED <<alive, inbox, singleton>>
    /\ UNCHANGED <<nextTask, outcome, lateDelivered, reqCount, failMsg, descs,
                   constructCount, eventCount, overlapped>>

\* The transcriber rejected.
InferFail(w, h) ==
    /\ w \in alive
    /\ h \in handlers[w]
    /\ h.pc = "infer"
    /\ Fails(w, h, InferErr)
    /\ NotCancel
    /\ UNCHANGED serverVars
    /\ UNCHANGED <<sample, aggregated, download>>
    /\ UNCHANGED appVars
    /\ UNCHANGED <<alive, inbox, singleton>>
    /\ UNCHANGED <<nextTask, outcome, lateDelivered, reqCount, descs, constructCount, eventCount, overlapped>>

\* --------------------------------------------------------- the REST server
NoFileMsg == "No audio file provided"
WavErr == "wav decoding failed"
AppVarsEtc == <<appVars, workerVars, histVars, download>>

\* res.status(code).json(body) and res.json(body), which answers with 200.
Respond(r, pc, code, body) ==
    requests' = [requests EXCEPT ![r].pc = pc,
                                 ![r].responses = Append(@, [status |-> code, body |-> body])]

\* getInstance with the engine awaited before it is stored: the instance is
\* still null while the first construction runs.
ServerMustConstruct_Awaited == serverInstance \in {"null", "pending"}

\* ServerPipelineSingleton.getInstance, the test: the promise of pipeline() is
\* stored at once, so the instance is null only before the first call.
ServerMustConstruct == serverInstance = "null"

\* The handler without the return of the 400 branch: it goes on to the engine.
ServerReceive_NoReturn(r, hasFile, wavOk) ==
    /\ requests[r].pc = "none"
    /\ IF ~wavOk
       THEN /\ requests' = [requests EXCEPT ![r] =
                   [pc |-> "done", hasFile |-> hasFile, engine |-> FALSE,
                    responses |-> <<[status |-> 500, body |-> [error |-> WavErr]]>>]]
            /\ UNCHANGED <<serverInstance, serverConstructs>>
       ELSE /\ requests' = [requests EXCEPT ![r] =
                   [pc |-> "getInstance", hasFile |-> hasFile, engine |-> TRUE,
                    responses |-> IF hasFile THEN <<>>
                                  ELSE <<[status |-> 400, body |-> [error |-> NoFileMsg]]>>]]
            /\ serverInstance' = IF ServerMustConstruct THEN "pending" ELSE serverInstance
            /\ serverConstructs' = IF ServerMustConstruct THEN serverConstructs + 1
                                   ELSE serverConstructs
    /\ UNCHANGED AppVarsEtc

\* POST /api/transcribe up to its first await: without a file 400 is answered;
\* a buffer that WaveFile refuses throws, and the catch block answers 500;
\* otherwise getInstance is called, which starts pipeline() when the instance
\* is null, and the handler waits for the engine.
ServerReceive(r, hasFile, wavOk) ==
    /\ requests[r].pc = "none"
    /\ IF ~hasFile
       THEN /\ requests' = [requests EXCEPT ![r] =
                   [pc |-> "done", hasFile |-> FALSE, engine |-> FALSE,
                    responses |-> <<[status |-> 400, body |-> [error |-> NoFileMsg]]>>]]
            /\ UNCHANGED <<serverInstance, serverConstructs>>
       ELSE IF ~wavOk
       THEN /\ requests' = [requests EXCEPT ![r] =
                   [pc |-> "done", hasFile |-> TRUE, engine |-> FALSE,
                    responses |-> <<[status |-> 500, body |-> [error |-> WavErr]]>>]]
            /\ UNCHANGED <<serverInstance, serverConstructs>>
       ELSE /\ requests' = [requests EXCEPT ![r] =
                   [pc |-> "getInstance", hasFile |-> TRUE, engine |-> TRUE,
                    responses |-> <<>>]]
            /\ serverInstance' = IF ServerMustConstruct THEN "pending" ELSE serverInstance
            /\ serverConstructs' = IF ServerMustConstruct THEN serverConstructs + 1
                                   ELSE serverConstructs
    /\ UNCHANGED AppVarsEtc

\* The promise of pipeline() resolves or rejects.
ServerPipelineOk ==
    /\ serverInstance = "pending"
    /\ serverInstance' = "resolved"
    /\ UNCHANGED <<requests, serverConstructs>>
    /\ UNCHANGED AppVarsEtc

ServerPipelineFail ==
    /\ serverInstance = "pending"
    /\ serverInstance' = "rejected"
    /\ UNCHANGED <<requests, serverConstructs>>
    /\ UNCHANGED AppVarsEtc

\* await getInstance() gives the engine: the transcriber is called.
ServerGotInstance(r) ==
    /\ requests[r].pc = "getInstance"
    /\ serverInstance = "resolved"
    /\ requests' = [requests EXCEPT ![r].pc = "transcribe"]
    /\ UNCHANGED <<serverInstance, serverConstructs>>
    /\ UNCHANGED AppVarsEtc

\* await getInstance() throws: the catch block answers 500.
ServerNoInstance(r) ==
    /\ requests[r].pc = "getInstance"
    /\ serverInstance = "rejected"
    /\ Respond(r, "done", 500, [error |-> ConstructErr])
    /\ UNCHANGED <<serverInstance, serverConstructs>>
    /\ UNCHANGED AppVarsEtc

\* The transcriber resolved: the output is answered.
ServerInferOk(r, chunks) ==
    /\ requests[r].pc = "transcribe"
    /\ Respond(r, "done", 200, [success |-> TRUE, data |-> chunks])
    /\ UNCHANGED <<serverInstance, serverConstructs>>
    /\ UNCHANGED AppVarsEtc

\* The transcriber rejected: the catch block answers 500.
ServerInferFail(r) ==
    /\ requests[r].pc = "transcribe"
    /\ Respond(r, "done", 500, [error |-> InferErr])
    /\ UNCHANGED <<serverInstance, serverConstructs>>
    /\ UNCHANGED AppVarsEtc

\* The server and its requests, which arrive and are answered in any order.
ServerNext ==
    \/ \E r \in Requests : \E hasFile, wavOk \in BOOLEAN : ServerReceive(r, hasFile, wavOk)
    \/ ServerPipelineOk
    \/ ServerPipelineFail
    \/ \E r \in Requests : ServerGotInstance(r)
    \/ \E r \in Requests : ServerNoInstance(r)
    \/ \E r \in Requests : \E c \in SpecChunks : ServerInferOk(r, c)
    \/ \E r \in Requests : ServerInferFail(r)

SpecServer == Init /\ [][ServerNext]_vars

\* The engine settles every promise and the event loop runs every handler that
\* can go on.
ServerFairness ==
    /\ WF_vars(ServerPipelineOk \/ ServerPipelineFail)
    /\ \A r \in Requests :
          /\ WF_vars(ServerGotInstance(r))
          /\ WF_vars(ServerNoInstance(r))
          /\ WF_vars((\E c \in SpecChunks : ServerInferOk(r, c)) \/ ServerInferFail(r))
SpecServerFair == SpecServer /\ ServerFairness

\* ---------------------------------------------------------- specification
\* Spec: the task controller and its workers. A media file is selected, the
\* device chosen, tasks started and cancelled; the engine answers as it may.
Next ==
    \/ StartTranscription
    \/ \E d \in decoding : DecodeOk(d)
    \/ \E d \in decoding : DecodeFail(d)
    \/ CancelProcessing
    \/ HandleFileSelection(TRUE)
    \/ \E dv \in Devices : setDevice(dv)
    \/ \E w \in WorkerIds : WorkerMessage(w)
    \/ \E w \in WorkerIds : WorkerReceive(w)
    \/ \E w \in WorkerIds : \E h \in handlers[w] : \E ev \in SpecEvents : EngineEvent(w, h, ev)
    \/ \E w \in WorkerIds : \E h \in handlers[w] : ConstructOk(w, h)
    \/ \E w \in WorkerIds : \E h \in handlers[w] : ConstructFail(w, h)
    \/ \E w \in WorkerIds : \E h \in handlers[w] : FallbackFail(w, h)
    \/ \E w \in WorkerIds : \E h \in handlers[w] : \E c \in SpecChunks : InferOk(w, h, c)
    \/ \E w \in WorkerIds : \E h \in handlers[w] : InferFail(w, h)

Spec == Init /\ [][Next]_vars

\* SpecSolo: the same program when the user starts at most MaxSoloTasks
\* tasks, each when nothing else is under way; every other step is as in Spec.
StartSolo == ~WorkUnderWay /\ nextTask < MaxSoloTasks /\ StartTranscription

SoloNext ==
    \/ StartSolo
    \/ \E d \in decoding : DecodeOk(d)
    \/ \E d \in decoding : DecodeFail(d)
    \/ CancelProcessing
    \/ HandleFileSelection(TRUE)
    \/ \E dv \in Devices : setDevice(dv)
    \/ \E w \in WorkerIds : WorkerMessage(w)
    \/ \E w \in WorkerIds : WorkerReceive(w)
    \/ \E w \in WorkerIds : \E h \in handlers[w] : \E ev \in SpecEvents : EngineEvent(w, h, ev)
    \/ \E w \in WorkerIds : \E h \in handlers[w] : ConstructOk(w, h)
    \/ \E w \in WorkerIds : \E h \in handlers[w] : ConstructFail(w, h)
    \/ \E w \in WorkerIds : \E h \in handlers[w] : FallbackFail(w, h)
    \/ \E w \in WorkerIds : \E h \in handlers[w] : \E c \in SpecChunks : InferOk(w, h, c)
    \/ \E w \in WorkerIds : \E h \in handlers[w] : InferFail(w, h)

SpecSolo == Init /\ [][SoloNext]_vars

\* What goes on without the user: decodeAudio settles, the worker reads a
\* request, the engine settles a promise the listener awaits, the main thread
\* handles a message of the worker.
SystemStep ==
    \/ \E d \in decoding : DecodeOk(d) \/ DecodeFail(d)
    \/ \E w \in WorkerIds : WorkerReceive(w) \/ WorkerMessage(w)
    \/ \E w \in WorkerIds : \E h \in handlers[w] :
          \/ ConstructOk(w, h) \/ ConstructFail(w, h) \/ FallbackFail(w, h)
          \/ (\E c \in SpecChunks : InferOk(w, h, c)) \/ InferFail(w, h)

\* Fair scheduling: as long as one of these steps can be taken, one is taken.
\* Nothing is assumed of the user (start, cancel, selections) or of the
\* asset-loading events.
Fairness == WF_vars(SystemStep)

\* Starts and cancels at any moment, also while earlier work is under way, with
\* an engine that reports no asset events.
RaceNext ==
    \/ HandleFileSelection(TRUE)
    \/ StartTranscription
    \/ \E d \in decoding : DecodeOk(d)
    \/ \E d \in decoding : DecodeFail(d)
    \/ CancelProcessing
    \/ \E w \in WorkerIds : WorkerMessage(w)
    \/ \E w \in WorkerIds : WorkerReceive(w)
    \/ \E w \in WorkerIds : \E h \in handlers[w] : ConstructOk(w, h)
    \/ \E w \in WorkerIds : \E h \in handlers[w] : ConstructFail(w, h)
    \/ \E w \in WorkerIds : \E h \in handlers[w] : FallbackFail(w, h)
    \/ \E w \in WorkerIds : \E h \in handlers[w] : \E c \in SpecChunks : InferOk(w, h, c)
    \/ \E w \in WorkerIds : \E h \in handlers[w] : InferFail(w, h)

SpecRace == Init /\ [][RaceNext]_vars
SpecRaceFair == SpecRace /\ Fairness
\* SpecLive: tasks started one after the other, cancelled at any moment, with
\* every outcome of decodeAudio and of the engine, under fair scheduling.  The
\* asset-loading events are left out: they neither enable nor disable a step.
MaxLiveTasks == 1

StartLive == ~WorkUnderWay /\ nextTask < MaxLiveTasks /\ StartTranscription

LiveNext ==
    \/ StartLive
    \/ \E d \in decoding : DecodeOk(d)
    \/ \E d \in decoding : DecodeFail(d)
    \/ CancelProcessing
    \/ HandleFileSelection(TRUE)
    \/ \E dv \in Devices : setDevice(dv)
    \/ \E w \in WorkerIds : WorkerMessage(w)
    \/ \E w \in WorkerIds : WorkerReceive(w)
    \/ \E w \in WorkerIds : \E h \in handlers[w] : ConstructOk(w, h)
    \/ \E w \in WorkerIds : \E h \in handlers[w] : ConstructFail(w, h)
    \/ \E w \in WorkerIds : \E h \in handlers[w] : FallbackFail(w, h)
    \/ \E w \in WorkerIds : \E h \in handlers[w] : \E c \in SpecChunks : InferOk(w, h, c)
    \/ \E w \in WorkerIds : \E h \in handlers[w] : InferFail(w, h)

SpecLive == Init /\ [][LiveNext]_vars /\ Fairness

\* SpecEmit: what the worker posts for the requests of at most MaxEmitTasks
\* tasks whose audio was decoded, on the selected device, with at most
\* MaxEmitEvents asset-loading events, cancel at any moment, under fair
\* scheduling.
MaxEmitTasks == 1
MaxEmitEvents == 1

StartEmit == ~WorkUnderWay /\ nextTask < MaxEmitTasks /\ StartTranscription
EmitEventStep(w, h, ev) == eventCount < MaxEmitEvents /\ Emit(w, h, ev)

EmitNext ==
    \/ StartEmit
    \/ \E d \in decoding : DecodeOk(d)
    \/ CancelProcessing
    \/ HandleFileSelection(TRUE)
    \/ \E w \in WorkerIds : WorkerMessage(w)
    \/ \E w \in WorkerIds : WorkerReceive(w)
    \/ \E w \in WorkerIds : \E h \in handlers[w] : \E ev \in SpecEvents : EmitEventStep(w, h, ev)
    \/ \E w \in WorkerIds : \E h \in handlers[w] : ConstructOk(w, h)
    \/ \E w \in WorkerIds : \E h \in handlers[w] : ConstructFail(w, h)
    \/ \E w \in WorkerIds : \E h \in handlers[w] : FallbackFail(w, h)
    \/ \E w \in WorkerIds : \E h \in handlers[w] : \E c \in SpecChunks : InferOk(w, h, c)
    \/ \E w \in WorkerIds : \E h \in handlers[w] : InferFail(w, h)

SpecEmit == Init /\ [][EmitNext]_vars /\ Fairness

\* SpecFrame: as SpecEmit without the fairness condition, and the engine may
\* also report 'init'.
FrameEvents == SpecEvents \cup {StatusMsg("init", 0)}
FrameEvent(w, h, ev) == eventCount < MaxEmitEvents /\ Emit(w, h, ev)

FrameNext ==
    \/ StartEmit
    \/ \E d \in decoding : DecodeOk(d)
    \/ CancelProcessing
    \/ HandleFileSelection(TRUE)
    \/ \E w \in WorkerIds : WorkerMessage(w)
    \/ \E w \in WorkerIds : WorkerReceive(w)
    \/ \E w \in WorkerIds : \E h \in handlers[w] : \E ev \in FrameEvents : FrameEvent(w, h, ev)
    \/ \E w \in WorkerIds : \E h \in handlers[w] : ConstructOk(w, h)
    \/ \E w \in WorkerIds : \E h \in handlers[w] : ConstructFail(w, h)
    \/ \E w \in WorkerIds : \E h \in handlers[w] : FallbackFail(w, h)
    \/ \E w \in WorkerIds : \E h \in handlers[w] : \E c \in SpecChunks : InferOk(w, h, c)
    \/ \E w \in WorkerIds : \E h \in handlers[w] : InferFail(w, h)

SpecFrame == Init /\ [][FrameNext]_vars

\* SpecFresh: at most MaxFreshTasks tasks started one after the other for the
\* selected model and device, which stay as they are, cancelled at any moment,
\* with every outcome of decodeAudio and of the engine.
MaxFreshTasks == 2

StartFresh == ~WorkUnderWay /\ nextTask < MaxFreshTasks /\ StartTranscription

FreshNext ==
    \/ StartFresh
    \/ \E d \in decoding : DecodeOk(d)
    \/ \E d \in decoding : DecodeFail(d)
    \/ CancelProcessing
    \/ HandleFileSelection(TRUE)
    \/ \E w \in WorkerIds : WorkerMessage(w)
    \/ \E w \in WorkerIds : WorkerReceive(w)
    \/ \E w \in WorkerIds : \E h \in handlers[w] : ConstructOk(w, h)
    \/ \E w \in WorkerIds : \E h \in handlers[w] : ConstructFail(w, h)
    \/ \E w \in WorkerIds : \E h \in handlers[w] : FallbackFail(w, h)
    \/ \E w \in WorkerIds : \E h \in handlers[w] : \E c \in SpecChunks : InferOk(w, h, c)
    \/ \E w \in WorkerIds : \E h \in handlers[w] : InferFail(w, h)

SpecFresh == Init /\ [][FreshNext]_vars

\* SpecCache: the engine cache of the one worker over tasks run with any
\* selection of model and device; no cancel, no asset-loading events.
StartCache == Start(MaxCacheTasks)

CacheNext ==
    \/ StartCache
    \/ \E d \in decoding : DecodeOk(d)
    \/ HandleFileSelection(TRUE)
    \/ resetApp
    \/ \E m \in Models : setModel(m)
    \/ \E dv \in Devices : setDevice(dv)
    \/ \E w \in WorkerIds : WorkerMessage(w)
    \/ \E w \in WorkerIds : WorkerReceive(w)
    \/ \E w \in WorkerIds : \E h \in handlers[w] : ConstructOk(w, h)
    \/ \E w \in WorkerIds : \E h \in handlers[w] : ConstructFail(w, h)
    \/ \E w \in WorkerIds : \E h \in handlers[w] : FallbackFail(w, h)
    \/ \E w \in WorkerIds : \E h \in handlers[w] : \E c \in SpecChunks : InferOk(w, h, c)
    \/ \E w \in WorkerIds : \E h \in handlers[w] : InferFail(w, h)

SpecCache == Init /\ [][CacheNext]_vars

\* SpecAgg: a worker loads the assets of an engine while the clock runs; the
\* main thread aggregates what the worker reports. A task is started when
\* nothing else is under way, and cancelled from the processing panel.
StartAgg == ~WorkUnderWay /\ Start(MaxAggTasks)
CancelAgg == isProcessing /\ progress # NoProgress /\ CancelProcessing

AggNext ==
    \/ HandleFileSelection(TRUE)
    \/ StartAgg
    \/ \E d \in decoding : DecodeOk(d)
    \/ CancelAgg
    \/ \E d \in TickSteps : Tick(d)
    \/ \E w \in WorkerIds : WorkerReceive(w)
    \/ \E w \in WorkerIds : \E h \in handlers[w] : \E ev \in AggEvents : AggEvent(w, h, ev)
    \/ \E w \in WorkerIds : WorkerMessage(w)
    \/ \E w \in WorkerIds : \E h \in handlers[w] : ConstructOk(w, h)
    \/ \E w \in WorkerIds : \E h \in handlers[w] : \E c \in SpecChunks : InferOk(w, h, c)

SpecAgg == Init /\ [][AggNext]_vars

\* --------------------------------------------- several events in flight
\* One task whose engine reports up to MaxCommuteEvents events, which may all
\* be waiting in the worker's outbox before the main thread handles the first.
CommuteEvent(w, h, ev) == eventCount < MaxCommuteEvents /\ Emit(w, h, ev)

CommuteNext ==
    \/ HandleFileSelection(TRUE)
    \/ StartAgg
    \/ \E d \in decoding : DecodeOk(d)
    \/ \E w \in WorkerIds : WorkerReceive(w)
    \/ \E w \in WorkerIds : \E h \in handlers[w] : \E ev \in AggEvents : CommuteEvent(w, h, ev)
    \/ \E w \in WorkerIds : WorkerMessage(w)
    \/ \E w \in WorkerIds : \E h \in handlers[w] : ConstructOk(w, h)
    \/ \E w \in WorkerIds : \E h \in handlers[w] : \E c \in SpecChunks : InferOk(w, h, c)

SpecCommute == Init /\ [][CommuteNext]_vars

\* ------------------------------------------------ results and their export
\* Tasks in sequence whose engine returns one of ResultChunks; the result on
\* display is exported as SRT or VTT.
ResultChunks ==
    { <<>>,
      << [text |-> "hi", timestamp |-> <<0, 1000>>] >>,
      << [text |-> " a", timestamp |-> <<0, 1000>>],
         [text |-> " b", timestamp |-> <<1000, 2000>>],
         [text |-> " c", timestamp |-> <<2000, 2000>>],
         [text |-> " d", timestamp |-> <<5000, 6000>>],
         [text |-> " e", timestamp |-> <<6000, 7000>>] >>,
      << [text |-> " a ", timestamp |-> <<0, 1000>>],
         [text |-> "b\n", timestamp |-> <<2500, 3000>>],
         [text |-> " c", timestamp |-> <<4501, 5000>>],
         [text |-> " d", timestamp |-> <<6499, 7000>>],
         [text |-> " e", timestamp |-> <<9000, 9500>>] >>,
      << [word |-> "w", timestamp |-> <<2000, Null>>],
         [timestamp |-> <<2500, 3000>>],
         [text |-> "t", word |-> "w", timestamp |-> <<3500, 4250>>] >>,
      << [text |-> " x "] >>,
      << [text |-> "a"], [text |-> "b", timestamp |-> <<0, 1000>>] >>,
      << [text |-> "late", timestamp |-> <<86399999, 86400000>>],
         [text |-> "later", timestamp |-> <<90061001, 360000000>>] >> }
Formats == {"srt", "vtt"}
StartResult == ~WorkUnderWay /\ Start(MaxResultTasks)

ResultNext ==
    \/ \E isMedia \in BOOLEAN : HandleFileSelection(isMedia)
    \/ StartResult
    \/ \E d \in decoding : DecodeOk(d)
    \/ \E w \in WorkerIds : WorkerReceive(w)
    \/ \E w \in WorkerIds : WorkerMessage(w)
    \/ \E w \in WorkerIds : \E h \in handlers[w] : ConstructOk(w, h)
    \/ \E w \in WorkerIds : \E h \in handlers[w] : \E c \in ResultChunks : InferOk(w, h, c)
    \/ \E format \in Formats : exportSubs(format)
    \/ resetApp

SpecResult == Init /\ [][ResultNext]_vars

\* ------------------------------------------------ one task after another
\* Two tasks in sequence, the second after the first was cancelled or has
\* finished; the engine may report 'init' besides the asset-loading events.
RestartEvents == AggEvents \cup {StatusMsg("init", 0)}
StartRestart == ~WorkUnderWay /\ Start(MaxTasks)

RestartNext ==
    \/ HandleFileSelection(TRUE)
    \/ StartRestart
    \/ \E d \in decoding : DecodeOk(d)
    \/ CancelAgg
    \/ \E d \in TickSteps : Tick(d)
    \/ \E w \in WorkerIds : WorkerReceive(w)
    \/ \E w \in WorkerIds : \E h \in handlers[w] : \E ev \in RestartEvents : AggEvent(w, h, ev)
    \/ \E w \in WorkerIds : WorkerMessage(w)
    \/ \E w \in WorkerIds : \E h \in handlers[w] : ConstructOk(w, h)
    \/ \E w \in WorkerIds : \E h \in handlers[w] : \E c \in SpecChunks : InferOk(w, h, c)

SpecRestart == Init /\ [][RestartNext]_vars

\* ================================================================= claims
\* Steps, recognised by what they change.
CancelStep == workerRef' # workerRef
StartStep == nextTask' # nextTask
MessageStep(w) ==
    w \in alive /\ w \in alive' /\ outbox[w] # <<>> /\ outbox'[w] = Tail(outbox[w])
ReceiveStep(w) ==
    w \in alive /\ w \in alive' /\ inbox[w] # <<>> /\ inbox'[w] = Tail(inbox[w])
Reached(t, o) == o \notin outcome[t] /\ o \in outcome'[t]

\* C1: at most one task is active at any time, and a start while a task is
\* active posts nothing and leaves the processing flag, the progress indicator
\* and the aggregator state as they are.
C1_StartWhileActiveFails ==
    /\ [](Cardinality(ActiveTasks) <= 1)
    /\ [][(StartStep /\ ActiveTasks # {}) =>
             UNCHANGED <<isProcessing, progress, downloads, globalProgress,
                         downloadStats, decoding, inbox>>]_vars

\* C2: a task cancelled in a non-terminal phase is abandoned: its request
\* reaches no worker after the cancel and no result of it is published.
C2_CancelAbandonsTask ==
    \A t \in Tasks :
        "cancelled" \in outcome[t] =>
            t \notin lateDelivered /\ "complete" \notin outcome[t]

\* C3: the terminal outcomes of a task are mutually exclusive: a task never
\* has two of complete, error and cancelled.
C3_OutcomesExclusive ==
    \A t \in Tasks : Cardinality(outcome[t]) <= 1

\* C4: whenever a task reaches a terminal outcome, by any path, the processing
\* flag is false and the progress indicator is null.
C4_TerminalClearsIndicators ==
    [][\A t \in Tasks :
          (outcome[t] = {} /\ outcome'[t] # {}) =>
              (isProcessing' = FALSE /\ progress' = NoProgress)]_vars

\* C5: a second cancel right after a cancel leaves the state as the first left
\* it: not processing, no progress, the cancellation recorded, every other
\* field of the component and the outcomes unchanged, and exactly one live
\* worker, the referenced one, which is as fresh as the one it replaces.
C5_CancelTwice ==
    [][(cancelRun >= 1 /\ CancelStep) =>
          /\ isProcessing' = FALSE /\ progress' = NoProgress /\ error' = CancelMsg
          /\ UNCHANGED <<file, isProcessing, progress, transcription, error, model,
                         device, downloadStats, downloadedModels, downloads,
                         globalProgress, decoding, outcome>>
          /\ alive' = {workerRef'}
          /\ inbox'[workerRef'] = inbox[workerRef]
          /\ outbox'[workerRef'] = outbox[workerRef]
          /\ handlers'[workerRef'] = handlers[workerRef]
          /\ singleton'[workerRef'] = singleton[workerRef]]_vars

C5_Witness ==
    cancelRun = 2 /\ ~isProcessing /\ error = CancelMsg /\ alive = {workerRef}

\* C6: cancel after the task reached complete or error is a no-op: the published
\* result, the failure message and the outcome stay as they are.
C6_CancelAfterTerminalNoop ==
    [][(/\ CancelStep
        /\ nextTask > 0
        /\ ActiveTasks = {}
        /\ decoding = {}
        /\ outcome[nextTask] \in {{"complete"}, {"error"}}) =>
          UNCHANGED <<transcription, error, outcome>>]_vars

\* C7: a cancelled task is not reported through the error outcome: right after
\* a cancel no failure message is set.
C7_CancelledNotError ==
    cancelRun > 0 => error = NoError

\* C8: a failure raised for a request is posted by the worker as one error
\* message with the failure's message; handling it publishes exactly that
\* message, ends the task with outcome error, clears the indicators and posts
\* nothing; a request is posted only by the continuation of a start, once.
C8_FailureReportedNoRetry ==
    /\ [][\A t \in Tasks :
             failMsg'[t] # failMsg[t] =>
                 \E w \in alive :
                     /\ outbox'[w] = Append(outbox[w],
                           Msg("error", "", 0, 0, failMsg'[t], NoOutput, t))
                     /\ \A h \in handlers'[w] : h.task # t]_vars
    /\ [][\A w \in WorkerIds :
             (MessageStep(w) /\ Head(outbox[w]).status = "error") =>
                 /\ error' = failMsg[Head(outbox[w]).task]
                 /\ error' \in {ConstructErr, InferErr}
                 /\ "error" \in outcome'[Head(outbox[w]).task]
                 /\ isProcessing' = FALSE
                 /\ progress' = NoProgress
                 /\ UNCHANGED <<inbox, reqCount, decoding>>]_vars
    /\ [][\A w \in WorkerIds :
             Len(inbox'[w]) > Len(inbox[w]) =>
                 \E d \in decoding :
                     /\ decoding' = decoding \ {d}
                     /\ inbox'[w] = Append(inbox[w], d)
                     /\ reqCount' = reqCount + 1]_vars
    /\ [](reqCount <= nextTask)

C8_Witness ==
    \E t \in Tasks :
        /\ outcome[t] = {"error"}
        /\ failMsg[t] \in {ConstructErr, InferErr}
        /\ error = failMsg[t]
        /\ ~isProcessing
        /\ reqCount = 1

\* The phase the component shows: the processing flag and the progress status.
PhaseRank(st) ==
    CASE st = "init" -> 1
      [] st = "progress" -> 2
      [] st = "ready" -> 3
      [] OTHER -> 0

\* C9: while tasks are started one after the other (never while earlier work is
\* under way), the phase of the active task moves forward only, initializing,
\* downloading, inferring, and its result is published only from inferring.
C9_PhasesInOrder ==
    [][~overlapped' =>
          /\ (isProcessing /\ isProcessing' /\ ~StartStep) =>
                 PhaseRank(progress'.status) >= PhaseRank(progress.status)
          /\ \A t \in ActiveTasks :
                 Reached(t, "complete") =>
                     (isProcessing /\ progress.status = "ready")]_vars

\* C10: while every getInstance call of a worker has requested one and the same
\* descriptor, a call made when an engine is cached and no other call is in
\* flight starts no construction.
C10_ConstructOnce ==
    [][\A w \in WorkerIds :
          (/\ ReceiveStep(w)
           /\ ~overlapped
           /\ handlers[w] = {}
           /\ singleton[w].instance # NoEngine
           /\ descs[w] = {<<Head(inbox[w]).model, Head(inbox[w]).device>>}) =>
              constructCount'[w] = constructCount[w]]_vars

\* A listener invocation of worker w that took a step and left the worker alive.
Stepped(w, h) == w \in alive' /\ h \in handlers[w] /\ h \notin handlers'[w]
After(w, h) == { h2 \in handlers'[w] : h2.task = h.task }

\* C11: when pipeline() fails for the requested device, the one retry asks for
\* wasm (a second pipeline() call); when the retry succeeds, the engine built
\* for wasm becomes the instance, getInstance returns it and the listener goes
\* on to inference without another pipeline() call.
C11_FallbackOnce ==
    [][\A w \in WorkerIds : \A h \in handlers[w] :
          /\ (Stepped(w, h) /\ h.pc = "construct") =>
                \A h2 \in After(w, h) :
                    h2.pc = "fallback" =>
                        /\ h2.build.device = Wasm
                        /\ constructCount'[w] = constructCount[w] + 1
          /\ (Stepped(w, h) /\ h.pc = "fallback") =>
                \A h2 \in After(w, h) :
                    /\ h2.pc = "infer"
                    /\ h.build.device = Wasm
                    /\ h2.transcriber = h.build
                    /\ singleton'[w].instance = h.build
                    /\ constructCount'[w] = constructCount[w]]_vars

C11_Witness ==
    \E w \in alive : \E h \in handlers[w] :
        /\ h.pc = "infer"
        /\ h.device # Wasm
        /\ h.transcriber.device = Wasm
        /\ constructCount[w] = 2

\* The error messages a worker has posted for task t and the main thread has
\* not handled yet.
RECURSIVE ErrorsIn(_, _)
ErrorsIn(q, t) ==
    IF q = <<>> THEN 0
    ELSE (IF Head(q).status = "error" /\ Head(q).task = t THEN 1 ELSE 0)
         + ErrorsIn(Tail(q), t)

\* C12: when the retry for wasm fails as well, no further pipeline() call is
\* made: every call is the first of a getInstance or the one retry after a
\* failed first; the listener posts one error message with the failure's
\* message and ends, and the transcriber is never called for that request.
C12_NoThirdAttempt ==
    /\ [][\A w \in WorkerIds :
             constructCount'[w] > constructCount[w] =>
                 \/ ReceiveStep(w) /\ constructCount'[w] = constructCount[w] + 1
                 \/ \E h \in handlers[w] :
                        /\ Stepped(w, h) /\ h.pc = "construct"
                        /\ constructCount'[w] = constructCount[w] + 1]_vars
    /\ [][\A w \in WorkerIds : \A h \in handlers[w] :
             (Stepped(w, h) /\ h.pc = "fallback" /\ After(w, h) = {}) =>
                 /\ outbox'[w] = Append(outbox[w],
                       Msg("error", "", 0, 0, ConstructErr, NoOutput, h.task))
                 /\ UNCHANGED <<singleton, constructCount, inbox>>]_vars
    /\ [](\A t \in Tasks :
             failMsg[t] = ConstructErr =>
                 /\ \A w \in WorkerIds : \A h \in handlers[w] : h.task # t
                 /\ \A w \in WorkerIds : ErrorsIn(outbox[w], t) <= 1
                 /\ "complete" \notin outcome[t])

C12_Witness ==
    \E t \in Tasks :
        /\ failMsg[t] = ConstructErr
        /\ outcome[t] = {"error"}
        /\ error = ConstructErr
        /\ constructCount[workerRef] = 2
        /\ singleton[workerRef].instance = NoEngine

\* C13: the engine getInstance returns for a request was built for the
\* request's model, on the request's device or on wasm; the instance changes
\* only when a pipeline() call succeeds. Stated for tasks started one after
\* the other.
C13_EngineMatchesRequest ==
    /\ [](~overlapped =>
             \A w \in alive : \A h \in handlers[w] :
                 h.pc = "infer" =>
                     /\ h.transcriber.model = h.model
                     /\ h.transcriber.device \in {h.device, Wasm})
    /\ [][\A w \in WorkerIds :
             (w \in alive' /\ singleton'[w].instance # singleton[w].instance) =>
                 \E h \in handlers[w] :
                     /\ Stepped(w, h) /\ h.pc \in {"construct", "fallback"}
                     /\ singleton'[w].instance = h.build
                     /\ \E h2 \in After(w, h) : h2.pc = "infer"]_vars

\* C14: a cancel replaces the referenced worker by a fresh one; a terminated
\* worker holds and posts nothing; and while a task is active, every message
\* the main thread handles stems from the request of an active task, never
\* from a task cancelled before.
C14_NoResidueAfterCancel ==
    /\ [][CancelStep =>
             /\ workerRef' \notin alive
             /\ alive' = (alive \ {workerRef}) \cup {workerRef'}
             /\ inbox'[workerRef'] = <<>> /\ outbox'[workerRef'] = <<>>
             /\ handlers'[workerRef'] = {}
             /\ singleton'[workerRef'] = InitSingleton]_vars
    /\ [](\A w \in WorkerIds \ alive :
             inbox[w] = <<>> /\ outbox[w] = <<>> /\ handlers[w] = {})
    /\ [][\A w \in WorkerIds :
             (MessageStep(w) /\ ActiveTasks # {}) =>
                 Head(outbox[w]).task \in ActiveTasks]_vars

\* The latest value reported for a file, and the sum of the latest values.
Latest(d, f, field) ==
    IF d[f] = NoEntry THEN 0
    ELSE IF field = "loaded" THEN d[f].loaded ELSE d[f].total
RECURSIVE LatestSum(_, _, _)
LatestSum(d, fs, field) ==
    IF fs = {} THEN 0
    ELSE LET f == CHOOSE x \in fs : TRUE
         IN  Latest(d, f, field) + LatestSum(d, fs \ {f}, field)

ProgressStep(w) == MessageStep(w) /\ Head(outbox[w]).status = "progress"

\* C15: a progress message replaces the entry of its file and leaves the
\* others; the loaded and total it publishes are the sums, over all files, of
\* the latest loaded and the latest total (in megabytes).
C15_GlobalSums ==
    [][\A w \in WorkerIds :
          ProgressStep(w) =>
              LET m == Head(outbox[w])
              IN  /\ downloads'[m.file] = [loaded |-> m.loaded, total |-> m.total]
                  /\ \A f \in Files \ {m.file} : downloads'[f] = downloads[f]
                  /\ downloadStats'.loaded =
                        Rat(LatestSum(downloads', Files, "loaded"), BytesPerMB)
                  /\ downloadStats'.total =
                        Rat(LatestSum(downloads', Files, "total"), BytesPerMB)]_vars

C15_Witness ==
    /\ downloads["model.onnx"] = [loaded |-> 1, total |-> 2]
    /\ downloads["tokenizer.json"] = [loaded |-> 3, total |-> 2]
    /\ downloadStats.loaded = Rat(4, BytesPerMB)
    /\ downloadStats.total = Rat(4, BytesPerMB)

\* A message that updates the per-file mapping.
UpdateStep(w) ==
    MessageStep(w) /\ Head(outbox[w]).status \in {"initiate", "progress", "done"}

\* C16: after every initiate, progress and done message the published loaded,
\* total and percentage are the ones derived from the mapping as it is then.
C16_SnapshotRecomputed ==
    [][\A w \in WorkerIds :
          UpdateStep(w) =>
              LET loaded == LatestSum(downloads', Files, "loaded")
                  total == LatestSum(downloads', Files, "total")
              IN  /\ progress'.progress = Percentage(loaded, total)
                  /\ downloadStats'.loaded = Rat(loaded, BytesPerMB)
                  /\ downloadStats'.total = Rat(total, BytesPerMB)]_vars

InRange(p) == p[1] >= 0 /\ p[1] <= 100 * p[2]

\* C17: in every state the published percentage, the one kept by the
\* aggregator and the one shown, lies in [0,100], and it is 0 whenever the
\* totals of the tracked files sum to 0.
C17_PercentageRange ==
    /\ InRange(globalProgress.percentage)
    /\ InRange(progress.progress)
    /\ (progress.status = "progress" /\ LatestSum(downloads, Files, "total") = 0) =>
           (progress.progress = Zero /\ globalProgress.percentage = Zero)

\* C18: speed and ETA are never negative, as kept by the aggregator and as
\* published, also when the global loaded count went down between two
\* samples or exceeds the total.
C18_SpeedEtaNonNegative ==
    /\ globalProgress.speed[1] >= 0 /\ globalProgress.speed[2] > 0
    /\ downloadStats.speed[1] >= 0 /\ downloadStats.speed[2] > 0
    /\ downloadStats.timeRemaining[1] >= 0 /\ downloadStats.timeRemaining[2] > 0

C18_Witness ==
    /\ sample.resample /\ sample.diff < 0 /\ sample.before[1] > 0
    /\ globalProgress.speed = Zero
    /\ downloadStats.timeRemaining = Zero

\* C19: a progress message takes a new speed sample exactly when at least
\* 0.5 s have passed since the last one: the speed becomes
\* max(0, (globalLoaded - lastLoaded) / elapsed) and the sample time and loaded
\* are replaced; otherwise speed, sample time and sample loaded stay.
C19_SpeedWindow ==
    [][\A w \in WorkerIds :
          ProgressStep(w) =>
              LET elapsed == now - globalProgress.time
                  loaded == LatestSum(downloads', Files, "loaded")
                  diff == loaded - globalProgress.loaded
              IN  IF elapsed >= SpeedWindowMs
                  THEN /\ globalProgress'.speed =
                             (IF diff > 0 THEN Rat(diff * 1000, elapsed) ELSE Zero)
                       /\ globalProgress'.time = now
                       /\ globalProgress'.loaded = loaded
                  ELSE /\ globalProgress'.speed = globalProgress.speed
                       /\ globalProgress'.time = globalProgress.time
                       /\ globalProgress'.loaded = globalProgress.loaded]_vars

\* The rational eta equals bytes / speed (speed positive).
IsQuotient(eta, bytes, speed) == eta[1] * speed[1] = bytes * speed[2] * eta[2]

\* C20 as stated: at every progress message the published ETA is
\* (globalTotal - globalLoaded) / speed when the speed is positive, and 0 when
\* the speed is 0.
C20_EtaAsStated ==
    [][\A w \in WorkerIds :
          ProgressStep(w) =>
              LET loaded == LatestSum(downloads', Files, "loaded")
                  total == LatestSum(downloads', Files, "total")
                  speed == globalProgress'.speed
              IN  IF speed[1] > 0
                  THEN IsQuotient(downloadStats'.timeRemaining, total - loaded, speed)
                  ELSE downloadStats'.timeRemaining = Zero]_vars

\* C20, amended: at every progress message the published ETA is
\* max(0, globalTotal - globalLoaded) / speed when the speed is positive, and 0
\* when the speed is 0.
C20_EtaClamped ==
    [][\A w \in WorkerIds :
          ProgressStep(w) =>
              LET loaded == LatestSum(downloads', Files, "loaded")
                  total == LatestSum(downloads', Files, "total")
                  speed == globalProgress'.speed
              IN  IF speed[1] > 0
                  THEN IsQuotient(downloadStats'.timeRemaining,
                                  Max(0, total - loaded), speed)
                  ELSE downloadStats'.timeRemaining = Zero]_vars

C20_Witness ==
    /\ progress.status = "progress"
    /\ globalProgress.speed[1] > 0
    /\ LatestSum(downloads, Files, "total") > LatestSum(downloads, Files, "loaded")
    /\ IsQuotient(downloadStats.timeRemaining,
                  LatestSum(downloads, Files, "total") - LatestSum(downloads, Files, "loaded"),
                  globalProgress.speed)
    /\ downloadStats.timeRemaining[1] > 0

DoneStep(w) == MessageStep(w) /\ Head(outbox[w]).status = "done"

\* C21: a done message for a tracked file sets that file's loaded to its total
\* and changes no other entry; a done message for an untracked file changes no
\* entry and adds none.
C21_DoneFrame ==
    [][\A w \in WorkerIds :
          DoneStep(w) =>
              LET f == Head(outbox[w]).file
              IN  /\ downloads[f] # NoEntry =>
                        downloads'[f] = [loaded |-> downloads[f].total,
                                         total |-> downloads[f].total]
                  /\ downloads[f] = NoEntry => downloads'[f] = NoEntry
                  /\ \A g \in Files \ {f} : downloads'[g] = downloads[g]]_vars

\* A done message found its file tracked and short of its total.
C21_Witness ==
    /\ downloads["model.onnx"] = [loaded |-> 2, total |-> 2]
    /\ progress.file = "model.onnx"

\* A done message found its file untracked.
C21_WitnessUntracked ==
    /\ aggregated # {}
    /\ \A f \in Files : downloads[f] = NoEntry

\* C22: when the first initiate, progress or done message of a task is
\* aggregated, the per-file mapping is empty and the last-sample loaded and the
\* last speed are zero.
C22_ResetAtTaskStart ==
    [][\A w \in WorkerIds :
          (UpdateStep(w) /\ Head(outbox[w]).task \notin aggregated) =>
              /\ \A f \in Files : downloads[f] = NoEntry
              /\ globalProgress.loaded = 0
              /\ globalProgress.speed = Zero]_vars

IsUpdate(m) == m.status \in {"initiate", "progress", "done"}
Aggregator == [downloads |-> downloads, loaded |-> downloadStats.loaded,
               total |-> downloadStats.total]

\* The orders in which the messages of a sequence can arrive when each file's
\* own messages keep their order.
Reorderings(msgs) ==
    LET n == Len(msgs)
        ok(q) == \A i, j \in 1..n :
                    (i < j /\ msgs[q[i]].file = msgs[q[j]].file) => q[i] < q[j]
    IN  { [i \in 1..n |-> msgs[q[i]]] : q \in { r \in Permutations(1..n) : ok(r) } }

\* The branches of the message handler do to the mapping and the published
\* sums what Aggregate computes.
AggregateIsHandler ==
    [][\A w \in WorkerIds :
          UpdateStep(w) =>
              [downloads |-> downloads', loaded |-> downloadStats'.loaded,
               total |-> downloadStats'.total] = Aggregate(Aggregator, Head(outbox[w]))]_vars

\* C23: whatever the order in which the waiting initiate, progress and done
\* messages of different files are handled (each file's own messages in order),
\* the mapping and the published loaded and total end up the same.
C23_Commute ==
    \A w \in alive :
        LET pending == SelectSeq(outbox[w], IsUpdate)
        IN  \A r \in Reorderings(pending) :
                AggregateAll(Aggregator, r) = AggregateAll(Aggregator, pending)

CompleteStep(w) == MessageStep(w) /\ Head(outbox[w]).status = "complete"
Labels == {"Speaker 1", "Speaker 2"}
Timed(chunk) == "timestamp" \in DOMAIN chunk

TimedPair(chunks, i) ==
    /\ Timed(chunks[i - 1]) /\ Timed(chunks[i])
    /\ chunks[i - 1].timestamp[2] # Null /\ chunks[i].timestamp[1] # Null
Times(chunks) == [i \in 1..Len(chunks) |-> chunks[i].timestamp]
Speakers(chunks) == [i \in 1..Len(chunks) |-> chunks[i].speaker]

\* C25: in every published result the label of a chunk differs from the label
\* of the chunk before it exactly when its start is more than 1.5 s after that
\* chunk's end; chunks at 0-1, 1-2, 2-2, 5-6 and 6-7 s are labelled speaker 1
\* three times and then speaker 2 twice.
C25_ToggleOnPause ==
    LET chunks == transcription.chunks
    IN  /\ \A i \in 2..Len(chunks) :
              TimedPair(chunks, i) =>
                  (chunks[i].speaker # chunks[i - 1].speaker
                     <=> chunks[i].timestamp[1] - chunks[i - 1].timestamp[2] > 1500)
        /\ (Len(chunks) = 5 /\ (\A i \in 1..5 : Timed(chunks[i])) /\
             Times(chunks) = << <<0, 1000>>, <<1000, 2000>>, <<2000, 2000>>,
                                <<5000, 6000>>, <<6000, 7000>> >>) =>
              Speakers(chunks) = <<"Speaker 1", "Speaker 1", "Speaker 1",
                                   "Speaker 2", "Speaker 2">>

\* A result with a pause of exactly 1.5 s (no change of speaker) followed by
\* one of 1.501 s (change).
C25_Witness ==
    LET chunks == transcription.chunks
    IN  /\ Len(chunks) = 5
        /\ \A i \in 1..5 : Timed(chunks[i])
        /\ chunks[2].timestamp[1] - chunks[1].timestamp[2] = 1500
        /\ chunks[2].speaker = chunks[1].speaker
        /\ chunks[3].timestamp[1] - chunks[2].timestamp[2] = 1501
        /\ chunks[3].speaker # chunks[2].speaker

\* A step that hands a new subtitle file of the format to the browser.
ExportStep(format) == download' # download /\ download'.name = "transcript." \o format

AllSpace(str) == \A k \in 1..Len(str) : SubSeq(str, k, k) \in {" ", "\t", "\n"}
\* str without the white space at its two ends.
Trimmed(str) ==
    CHOOSE t \in { SubSeq(str, i, j) : i \in 1..Len(str) + 1, j \in 0..Len(str) } :
        /\ \E i \in 0..Len(str) : \E j \in i..Len(str) :
              /\ t = SubSeq(str, i + 1, j)
              /\ AllSpace(SubSeq(str, 1, i)) /\ AllSpace(SubSeq(str, j + 1, Len(str)))
        /\ t # "" => (~AllSpace(SubSeq(t, 1, 1)) /\ ~AllSpace(SubSeq(t, Len(t), Len(t))))

TwoDigits(n) == IF n < 10 THEN "0" \o ToString(n) ELSE ToString(n)
ThreeDigits(n) == IF n < 100 THEN "0" \o TwoDigits(n) ELSE ToString(n)
\* HH:MM:SS and milliseconds that denote t milliseconds, the hours not reduced.
Exact(t, isSRT) ==
    TwoDigits(t \div 3600000) \o ":" \o TwoDigits((t % 3600000) \div 60000) \o ":" \o
    TwoDigits((t % 60000) \div 1000) \o (IF isSRT THEN "," ELSE ".") \o ThreeDigits(t % 1000)
Stamp(t, isSRT, exact) == IF exact THEN Exact(t, isSRT) ELSE formatTimestamp(t, isSRT)

\* The blocks of chunks i.. as section 4.5 lays them out: the number line (SRT
\* only), the timing line, the trimmed text, a blank line.
RECURSIVE Blocks(_, _, _, _)
Blocks(chunks, i, format, exact) ==
    IF i > Len(chunks) THEN ""
    ELSE (IF format = "srt" THEN ToString(i) \o "\n" ELSE "") \o
         Stamp(ChunkStart(chunks[i]), format = "srt", exact) \o " --> " \o
         Stamp(ChunkEnd(chunks[i]), format = "srt", exact) \o "\n" \o
         Trimmed(ChunkText(chunks[i])) \o "\n\n" \o
         Blocks(chunks, i + 1, format, exact)

StartsWith(str, prefix) == Len(str) >= Len(prefix) /\ SubSeq(str, 1, Len(prefix)) = prefix

\* C26: an SRT export is, with no header, the blocks of the chunks in their
\* order, each a 1-based number line, the timing line, the trimmed text and a
\* blank line; the chunk {text 'hi', timestamp [0, 1]} alone gives exactly
\* '1\n00:00:00,000 --> 00:00:01,000\nhi\n\n'.
C26_SrtLayout ==
    [][ExportStep("srt") =>
          LET chunks == transcription.chunks
          IN  /\ download'.content = Blocks(chunks, 1, "srt", FALSE)
              /\ (Len(chunks) = 1 /\ ChunkText(chunks[1]) = "hi" /\
                   Timed(chunks[1]) /\ chunks[1].timestamp = <<0, 1000>>) =>
                     download'.content = "1\n00:00:00,000 --> 00:00:01,000\nhi\n\n"]_vars

\* The SRT file of a result of five chunks whose texts have white space around.
C26_Witness ==
    /\ download.name = "transcript.srt"
    /\ Len(transcription.chunks) = 5
    /\ transcription.chunks[2].text = "b\n"
    /\ download.content = Blocks(transcription.chunks, 1, "srt", FALSE)
    /\ StartsWith(download.content, "1\n00:00:00,000 --> 00:00:01,000\na\n\n2\n")

\* C27: a VTT export is the line WEBVTT, a blank line and the blocks without
\* number lines, also for a result of no chunks; an SRT export does not start
\* with that header.
C27_VttHeader ==
    [][/\ ExportStep("vtt") =>
             /\ StartsWith(download'.content, "WEBVTT\n\n")
             /\ download'.content =
                   "WEBVTT\n\n" \o Blocks(transcription.chunks, 1, "vtt", FALSE)
       /\ ExportStep("srt") => ~StartsWith(download'.content, "WEBVTT")]_vars

\* The VTT file of a result of no chunks.
C27_Witness ==
    /\ transcription # NoOutput
    /\ transcription.chunks = <<>>
    /\ download = [name |-> "transcript.vtt", content |-> "WEBVTT\n\n"]

\* C28: the times of every exported block denote the chunk's start and end
\* exactly, the hours field being 24 or more from 86400 s on.
C28_NoWrap ==
    [][\A format \in Formats :
          ExportStep(format) =>
              download'.content =
                  (IF format = "vtt" THEN "WEBVTT\n\n" ELSE "") \o
                  Blocks(transcription.chunks, 1, format, TRUE)]_vars

\* The number of timing lines of a subtitle text.
Timings(str) == Cardinality({ k \in 1..(Len(str) - 4) : SubSeq(str, k, k + 4) = " --> " })

\* C29: in every export a chunk without end time has the end one second after
\* its start, a chunk without timestamp the times 0 and 1 s, a chunk without
\* text and word an empty text line, and there are as many blocks as chunks.
C29_Defaults ==
    [][\A format \in Formats :
          ExportStep(format) =>
              LET chunks == transcription.chunks
                  start(c) == IF Timed(c) /\ c.timestamp[1] # Null THEN c.timestamp[1] ELSE 0
                  end(c) == IF Timed(c) /\ c.timestamp[2] # Null THEN c.timestamp[2]
                            ELSE start(c) + 1000
                  text(c) == IF "text" \in DOMAIN c THEN c.text
                             ELSE IF "word" \in DOMAIN c THEN c.word ELSE ""
                  line(c) == formatTimestamp(start(c), format = "srt") \o " --> " \o
                             formatTimestamp(end(c), format = "srt") \o "\n" \o
                             Trimmed(text(c)) \o "\n\n"
              IN  /\ Timings(download'.content) = Len(chunks)
                  /\ \A i \in 1..Len(chunks) :
                        \E k \in 1..(Len(download'.content) - Len(line(chunks[i])) + 1) :
                            SubSeq(download'.content, k, k + Len(line(chunks[i])) - 1)
                               = line(chunks[i])]_vars

\* The SRT file of a result whose first chunk has no end time and whose second
\* has neither text nor word.
C29_Witness ==
    /\ Len(transcription.chunks) = 3
    /\ transcription.chunks[1].timestamp = <<2000, Null>>
    /\ download.content =
          "1\n00:00:02,000 --> 00:00:03,000\nw\n\n" \o
          "2\n00:00:02,500 --> 00:00:03,000\n\n\n" \o
          "3\n00:00:03,500 --> 00:00:04,250\nt\n\n"

\* The SRT file of a chunk that has no timestamp.
C29_WitnessNoTimestamp ==
    /\ Len(transcription.chunks) = 1
    /\ ~Timed(transcription.chunks[1])
    /\ download.content = "1\n00:00:00,000 --> 00:00:01,000\nx\n\n"

\* The step of a file selection that was refused.
RefusedStep == error' = InvalidFileMsg /\ error # InvalidFileMsg

\* C30: a selection refused for its type records the error and leaves the
\* selected file, the result and the work under way as they are, posting no
\* request; a start takes effect only when a file is selected, so that without
\* one nothing changes and no request is ever posted for it.
C30_InvalidInputRejected ==
    [][/\ RefusedStep =>
             /\ file' = file /\ transcription' = transcription
             /\ isProcessing' = isProcessing /\ decoding' = decoding
             /\ inbox' = inbox /\ reqCount' = reqCount /\ nextTask' = nextTask
       /\ StartStep => file]_vars

\* A file of another type was chosen while a result was on display.
C30_Witness ==
    /\ error = InvalidFileMsg
    /\ file
    /\ transcription # NoOutput
    /\ Len(transcription.chunks) > 0

Answered(r) == Len(requests'[r].responses) > Len(requests[r].responses)
LastResponse(r) == requests'[r].responses[Len(requests'[r].responses)]
IsError(resp, code) == resp.status = code /\ DOMAIN resp.body = {"error"}
IsSuccess(resp) ==
    resp.status = 200 /\ DOMAIN resp.body = {"success", "data"} /\ resp.body.success

\* C31: no request is answered twice and a handler that has ended has answered;
\* without a file the answer is {error} with 400 and the engine is not asked
\* for; with a file it is {error} with 500 when the decoding, the construction
\* or the inference failed and {success: true, data} when the inference gave
\* its output; and every request that arrived is answered in the end.
C31_OneResponse ==
    /\ [](\A r \in Requests :
            /\ Len(requests[r].responses) <= 1
            /\ requests[r].pc = "done" <=> Len(requests[r].responses) = 1
            /\ ~requests[r].hasFile => ~requests[r].engine)
    /\ [][\A r \in Requests :
            Answered(r) =>
                CASE requests[r].pc = "none" ->
                       IF requests'[r].hasFile
                       THEN IsError(LastResponse(r), 500)
                       ELSE IsError(LastResponse(r), 400) /\
                            LastResponse(r).body.error = NoFileMsg
                  [] requests[r].pc = "getInstance" ->
                       serverInstance = "rejected" /\ IsError(LastResponse(r), 500)
                  [] requests[r].pc = "transcribe" ->
                       /\ serverInstance = "resolved"
                       /\ IsSuccess(LastResponse(r)) \/ IsError(LastResponse(r), 500)
                  [] OTHER -> FALSE]_vars
    /\ \A r \in Requests :
          requests[r].pc # "none" ~> Len(requests[r].responses) = 1

\* One request was refused for its missing file, one could not be decoded and
\* one was transcribed.
C31_Witness ==
    \E r1, r2, r3 \in Requests :
        /\ requests[r1].pc = "done" /\ requests[r1].responses[1].status = 400
        /\ requests[r2].pc = "done" /\ requests[r2].responses[1].status = 500
        /\ requests[r3].pc = "done" /\ requests[r3].responses[1].status = 200
        /\ requests[r3].responses[1].body.data \in SpecChunks

\* C37: the server calls pipeline() at most once, however many requests there
\* are and whenever they arrive; once that construction has failed no request
\* starts another one, and every request that asks for the engine from then on
\* is answered {error} with 500.
C37_ServerConstructsOnce ==
    /\ [](serverConstructs <= 1)
    /\ [][serverInstance = "rejected" =>
            /\ serverInstance' = "rejected"
            /\ serverConstructs' = serverConstructs
            /\ \A r \in Requests :
                  (Answered(r) /\ requests'[r].engine) =>
                      (IsError(LastResponse(r), 500) /\
                       LastResponse(r).body.error = ConstructErr)]_vars

\* The one construction failed, two requests were answered with its failure
\* and a third one is waiting for the engine.
C37_Witness ==
    /\ serverInstance = "rejected"
    /\ serverConstructs = 1
    /\ \E r1, r2, r3 \in Requests :
          /\ r1 # r2 /\ r1 # r3 /\ r2 # r3
          /\ requests[r1].responses = <<[status |-> 500, body |-> [error |-> ConstructErr]]>>
          /\ requests[r2].responses = <<[status |-> 500, body |-> [error |-> ConstructErr]]>>
          /\ requests[r3].pc = "getInstance"

\* The engines whose construction is in flight on worker w.
InFlight(w) == { h.build : h \in { g \in handlers[w] : g.pc \in {"construct", "fallback"} } }

\* C32: a request that reaches a worker while a construction is in flight there
\* is inferred on an engine of its own model and device when getInstance gives
\* it the cached one, and starts no construction for a descriptor whose
\* construction is already in flight.
C32_ConcurrentRequests ==
    [][\A w \in WorkerIds :
          (ReceiveStep(w) /\ InFlight(w) # {}) =>
              LET req == Head(inbox[w])
                  own == [model |-> req.model, device |-> req.device]
              IN  \A h \in handlers'[w] \ handlers[w] :
                      /\ h.pc = "infer" => h.transcriber = own
                      /\ h.pc = "construct" => h.build \notin InFlight(w)]_vars

\* C33: under fair scheduling, whenever the processing flag is set it is
\* cleared again, and every task that was started reaches a terminal outcome.
C33_TaskTerminates ==
    /\ isProcessing ~> ~isProcessing
    /\ \A t \in Tasks : (nextTask >= t) ~> (outcome[t] # {})

\* A task was started, an engine was constructed for it and a message of the
\* worker ended it.
C33_Witness ==
    /\ nextTask >= 1
    /\ ~isProcessing
    /\ outcome[1] \in {{"complete"}, {"error"}}
    /\ constructCount[1] >= 1

\* A call of cancelProcessing.
CancelCall == cancelRun' > 0

\* A living worker has read the request of task t.
Handled(t) == emitted[t].by # 0

\* What the worker posts for a request: never a second terminal message, never
\* an event after the terminal message, nothing for a request it did not read.
EmitOrder ==
    [](\A t \in Tasks :
          /\ Len(emitted[t].terminal) <= 1
          /\ ~emitted[t].late
          /\ emitted[t].terminal # <<>> => Handled(t)
          /\ Handled(t) => emitted[t].by \in alive)

\* C34 as stated: for every request the worker handles it posts exactly one
\* terminal message, 'complete' or 'error' and never both, after every
\* download event posted for that request.
C34_ExactlyOneTerminal ==
    /\ EmitOrder
    /\ \A t \in 1..MaxEmitTasks : Handled(t) ~> (Len(emitted[t].terminal) = 1)

\* C34: for every request the worker handles it posts at most one terminal
\* message, 'complete' or 'error' and never both, after every download event
\* posted for that request; it posts exactly one unless the worker is
\* terminated by a cancel before the listener has finished.
C34_ExactlyOneUnlessTerminated ==
    /\ EmitOrder
    /\ \A t \in 1..MaxEmitTasks :
          Handled(t) ~> (Len(emitted[t].terminal) = 1 \/ ~Handled(t))
    /\ [][\A t \in Tasks :
            (Handled(t) /\ ~Handled(t)') =>
                (CancelCall /\ emitted[t].by \notin alive')]_vars

\* An event and 'ready' were posted for a request and then its terminal message.
C34_Witness ==
    /\ eventCount >= 1
    /\ Handled(1)
    /\ emitted[1].by \in alive
    /\ Len(emitted[1].terminal) = 1
    /\ "ready" \in {outbox[emitted[1].by][k].status : k \in 1..Len(outbox[emitted[1].by])}

\* C35: cancel terminates the referenced worker and leaves a new one with an
\* empty engine cache and nothing under way, and the first request a worker
\* reads starts an engine construction, whatever descriptor it asks for.
C35_CancelDiscardsCache ==
    [][/\ CancelCall =>
            /\ workerRef \notin alive'
            /\ workerRef' \in alive' \ alive
            /\ singleton'[workerRef'].instance = NoEngine
            /\ handlers'[workerRef'] = {}
            /\ descs'[workerRef'] = {}
       /\ \A w \in WorkerIds :
            (ReceiveStep(w) /\ descs[w] = {}) =>
                LET req == Head(inbox[w])
                IN  /\ constructCount'[w] = 1
                    /\ \E h \in handlers'[w] \ handlers[w] :
                          /\ h.task = req.task
                          /\ h.pc = "construct"
                          /\ h.build = [model |-> req.model, device |-> req.device]]_vars

\* A task was transcribed, so an engine for the descriptor was constructed; the
\* worker that held it was terminated by a cancel, and the first request of the
\* next worker, for the same descriptor, constructs an engine.
C35_Witness ==
    \E t1 \in Tasks : \E h \in handlers[workerRef] :
        /\ "complete" \in outcome[t1]
        /\ h.task > t1
        /\ workerRef > 1
        /\ h.pc = "construct"
        /\ h.build = [model |-> DefaultModel, device |-> Wasm]
        /\ constructCount[workerRef] = 1
        /\ descs[workerRef] = {<<h.model, h.device>>}

\* The statuses of the asset-loading phase.
DownloadStatuses == {"init", "initiate", "progress", "done", "ready"}
DownloadStep(w) == MessageStep(w) /\ Head(outbox[w]).status \in DownloadStatuses

\* C36: handling an init, initiate, progress, done or ready message leaves the
\* published result, the error message and the processing flag as they are,
\* and also the selection, the worker reference and the pending decodings; it
\* changes the aggregator state and the progress indicator only, and 'ready'
\* also the list of downloaded models.
C36_DownloadEventFrame ==
    [][\A w \in WorkerIds :
          DownloadStep(w) =>
              /\ transcription' = transcription
              /\ error' = error
              /\ isProcessing' = isProcessing
              /\ UNCHANGED <<file, model, device, workerRef, decoding, download>>
              /\ Head(outbox[w]).status # "ready" => downloadedModels' = downloadedModels]_vars

\* An init message was handled after a cancel: the cancellation message and the
\* cleared processing flag are still there.
C36_Witness ==
    /\ progress.status = "init"
    /\ error = CancelMsg
    /\ ~isProcessing

====
